---- MODULE Spec2Model ----
(***************************************************************************)
(* Song index and fuzzy search of the Donnerstagsspiel archive             *)
(* (src/main.py): normalize_song_name, build_song_index, search_songs,     *)
(* get_song_connections, get_top_songs and the loading part of main;       *)
(* search_songs_db of src/db.py.                                           *)
(*                                                                         *)
(* A string is a sequence of characters; a character is written as a       *)
(* one-letter token ("a", "-", " ") or, for the characters that have no   *)
(* ASCII spelling, as a named token ("TAB", "EACUTE", "COMB_ACUTE", ...).  *)
(***************************************************************************)
EXTENDS Integers, Sequences, FiniteSets, TLC

VARIABLES
    worksheets,   \* sheet name -> DataFrame (load_excel_data's result)
    song_index,   \* build_song_index's result, in dict insertion order
    phase,        \* "loaded" (no index yet) or "indexed"
    query,        \* argument of the last search_songs call
    threshold,    \* fuzzy_threshold of the last search_songs call
    results,      \* list returned by the last search_songs call
    norm_in,      \* argument of normalize_song_name
    norm_out,     \* normalize_song_name(norm_in)
    norm_twice,   \* normalize_song_name(norm_out)
    norm_pc,      \* "start", "once", "twice"
    conn_song,    \* argument of the last get_song_connections call
    connections,  \* list returned by the last get_song_connections call
    top_limit,    \* limit of the last get_top_songs call
    top_songs,    \* list returned by the last get_top_songs call
    source,       \* the sheets of the Excel file, in file order
    main_pc,      \* where one run of main() stands
    frame,        \* locals of the load_excel_data / build_song_index call in progress
    error_shown,  \* st.error has been called in this run
    db_results,   \* list returned by the last search_songs_db call
    req,         \* the db.supabase_request call of a query function of src/db.py
    copies,      \* the keys the four normalize_song_name copies give one string
    push,        \* one run of push_to_supabase.main
    retry,       \* one call of push_simple.supabase_request
    nav,         \* st.session_state as the navigation helpers use it
    pager,       \* st.session_state[page_key] and the list being paginated
    likes,       \* the likes file, the debounce entries of the session and the clock
    validation   \* the report of validate_excel_data

vars == <<worksheets, song_index, phase, query, threshold, results,
          norm_in, norm_out, norm_twice, norm_pc,
          conn_song, connections, top_limit, top_songs,
          source, main_pc, frame, error_shown, db_results,
          req, copies, push, retry, nav, pager, likes, validation>>

searchVars == <<worksheets, song_index, phase, query, threshold, results>>
normVars == <<norm_in, norm_out, norm_twice, norm_pc>>
callVars == <<conn_song, connections, top_limit, top_songs, db_results>>
mainVars == <<source, main_pc, frame, error_shown>>
coreVars == <<searchVars, normVars, callVars, mainVars>>
extVars == <<req, copies, push, retry, nav, pager, likes, validation>>
all_but_req == <<coreVars, copies, push, retry, nav, pager, likes, validation>>
all_but_copies == <<coreVars, req, push, retry, nav, pager, likes, validation>>
all_but_push == <<coreVars, req, copies, retry, nav, pager, likes, validation>>
all_but_retry == <<coreVars, req, copies, push, nav, pager, likes, validation>>
all_but_nav == <<coreVars, req, copies, push, retry, pager, likes, validation>>
all_but_pager == <<coreVars, req, copies, push, retry, nav, likes, validation>>
all_but_likes == <<coreVars, req, copies, push, retry, nav, pager, validation>>
all_but_validation == <<coreVars, req, copies, push, retry, nav, pager, likes>>

(***************************************************************************)
(* Characters                                                              *)
(***************************************************************************)

\* Python's None (and pandas' NaN for a cell): no string at all.
None == <<"None">>

\* Unicode code point of a character (ord), for Python's string order.
Ord(c) ==
    CASE c = "TAB"        -> 9
      [] c = " "          -> 32
      [] c = "DQUOTE"     -> 34
      [] c = "APOS"       -> 39
      [] c = "-"          -> 45
      [] c = "A"          -> 65
      [] c = "E"          -> 69
      [] c = "B"          -> 66
      [] c = "BACKTICK"   -> 96
      [] c = "a"          -> 97
      [] c = "b"          -> 98
      [] c = "e"          -> 101
      [] c = "z"          -> 122
      [] c = "YEN"        -> 165
      [] c = "NOTSIGN"    -> 172
      [] c = "ACUTE"      -> 180
      [] c = "EACUTE_UP"  -> 201
      [] c = "EACUTE"     -> 233
      [] c = "COMB_ACUTE" -> 769
      [] c = "ENDASH"     -> 8211
      [] c = "EMDASH"     -> 8212
      [] c = "LSQUO"      -> 8216
      [] c = "RSQUO"      -> 8217
      [] c = "LOW9"       -> 8218
      [] c = "LDQUO"      -> 8220
      [] c = "MINUS"      -> 8722

\* str.lower() of one character.
Lower(c) ==
    CASE c = "A"         -> "a"
      [] c = "B"         -> "b"
      [] c = "EACUTE_UP" -> "EACUTE"
      [] OTHER           -> c

\* unicodedata.normalize with form NFD: canonical decomposition of one character.
NFD(c) ==
    CASE c = "EACUTE"    -> <<"e", "COMB_ACUTE">>
      [] c = "EACUTE_UP" -> <<"E", "COMB_ACUTE">>
      [] OTHER           -> <<c>>

\* unicodedata.category(c) is Mn (nonspacing mark)
IsMn(c) == c = "COMB_ACUTE"

\* The character class of the first quote substitution, as written in the source.
SingleQuoteClass == {"APOS", "NOTSIGN", "YEN", "BACKTICK"}

\* The character class of the second quote substitution, as written in the
\* source ("AUML_UP" and "UCIRC" never survive lower-casing and accent removal).
DoubleQuoteClass == {"DQUOTE", "LOW9", "AUML_UP", "UCIRC"}

\* The character class of the dash substitution, as written in the source.
DashClass == {"LOW9", "AUML_UP", "IGRAVE", "ICIRC", "AGRAVE", "IACUTE"}

\* Python's str.isspace / the regular expression class \s.
IsSpace(c) == c \in {" ", "TAB"}

(***************************************************************************)
(* Strings                                                                 *)
(***************************************************************************)

\* All strings over alphabet A of length lo..hi.
Strings(A, lo, hi) == UNION {[1..n -> A] : n \in lo..hi}

RECURSIVE FlatMap(_, _)
FlatMap(F(_), s) ==
    IF s = <<>> THEN <<>> ELSE F(Head(s)) \o FlatMap(F, Tail(s))

MapChars(F(_), s) == [i \in 1..Len(s) |-> F(s[i])]

\* Index of the first character at or after i that is not white space
\* (Len(s) + 1 if there is none).
RECURSIVE SkipSpace(_, _)
SkipSpace(s, i) ==
    IF i > Len(s) \/ ~IsSpace(s[i]) THEN i ELSE SkipSpace(s, i + 1)

\* str.strip(): drop leading and trailing white space.
RECURSIVE RStrip(_)
RStrip(s) ==
    IF s # <<>> /\ IsSpace(s[Len(s)]) THEN RStrip(SubSeq(s, 1, Len(s) - 1)) ELSE s

Strip(s) ==
    LET i == SkipSpace(s, 1) IN RStrip(SubSeq(s, i, Len(s)))

\* Python's order on strings: lexicographic by code point.
RECURSIVE StrLess(_, _)
StrLess(s, t) ==
    IF t = <<>> THEN FALSE
    ELSE IF s = <<>> THEN TRUE
    ELSE IF Head(s) = Head(t) THEN StrLess(Tail(s), Tail(t))
    ELSE Ord(Head(s)) < Ord(Head(t))

\* query_normalized in normalized_name: q occurs in s as a contiguous run.
Contains(s, q) ==
    \E i \in 1..(Len(s) - Len(q) + 1) : SubSeq(s, i, i + Len(q) - 1) = q

(***************************************************************************)
(* normalize_song_name                                                     *)
(***************************************************************************)

\* re.sub of \s+ by one space
RECURSIVE CollapseSpaces(_, _)
CollapseSpaces(s, i) ==
    IF i > Len(s) THEN <<>>
    ELSE IF IsSpace(s[i]) THEN <<" ">> \o CollapseSpaces(s, SkipSpace(s, i))
    ELSE <<s[i]>> \o CollapseSpaces(s, i + 1)

\* A plausible slip: only the hyphen is replaced, the white space around it
\* is kept.
RECURSIVE HyphenSpacingKeepsSpaces(_, _)
HyphenSpacingKeepsSpaces(s, i) ==
    IF i > Len(s) THEN <<>>
    ELSE IF s[i] = "-" THEN <<" ", "-", " ">> \o HyphenSpacingKeepsSpaces(s, i + 1)
    ELSE <<s[i]>> \o HyphenSpacingKeepsSpaces(s, i + 1)

\* re.sub of \s*-\s* by space-hyphen-space, from index i: the leftmost match
\* starts at the white-space run before a hyphen and takes the run after it.
RECURSIVE HyphenSpacing(_, _)
HyphenSpacing(s, i) ==
    IF i > Len(s) THEN <<>>
    ELSE LET j == SkipSpace(s, i) IN
         IF j <= Len(s) /\ s[j] = "-"
         THEN <<" ", "-", " ">> \o HyphenSpacing(s, SkipSpace(s, j + 1))
         ELSE IF j > i THEN SubSeq(s, i, j - 1) \o HyphenSpacing(s, j)
         ELSE <<s[i]>> \o HyphenSpacing(s, i + 1)

StripMarks(s) == SelectSeq(s, LAMBDA c : ~IsMn(c))

MapQuotes(c) ==
    LET c1 == IF c \in SingleQuoteClass THEN "APOS" ELSE c
    IN  IF c1 \in DoubleQuoteClass THEN "DQUOTE" ELSE c1

MapDashes(c) == IF c \in DashClass THEN "-" ELSE c

normalize_song_name(song) ==
    IF song = None \/ song = <<>> THEN <<>>
    ELSE LET lowered == MapChars(Lower, song)
             nfd     == StripMarks(FlatMap(NFD, lowered))
             quoted  == MapChars(MapQuotes, nfd)
             dashed  == MapChars(MapDashes, quoted)
             spaced  == CollapseSpaces(dashed, 1)
             hyphens == HyphenSpacing(spaced, 1)
         IN  Strip(hyphens)

(***************************************************************************)
(* rapidfuzz: fuzz.token_sort_ratio and process.extract, as search_songs   *)
(* calls them.  A score is the exact fraction <<numerator, denominator>>   *)
(* in lowest terms (rapidfuzz returns it as a float).                      *)
(***************************************************************************)

RECURSIVE Gcd(_, _)
Gcd(a, b) == IF b = 0 THEN a ELSE Gcd(b, a % b)

Frac(n, d) == LET g == Gcd(n, d) IN <<n \div g, d \div g>>

Hundred == Frac(100, 1)

\* An int threshold or score as a fraction.
AsScore(n) == Frac(n, 1)

ScoreLess(x, y) == x[1] * y[2] < y[1] * x[2]
ScoreLeq(x, y) == x[1] * y[2] <= y[1] * x[2]

\* str.split(): the maximal runs of non-space characters, from index i.
RECURSIVE SplitFrom(_, _, _)
SplitFrom(s, i, cur) ==
    IF i > Len(s) THEN (IF cur = <<>> THEN <<>> ELSE <<cur>>)
    ELSE IF IsSpace(s[i])
         THEN (IF cur = <<>> THEN <<>> ELSE <<cur>>) \o SplitFrom(s, i + 1, <<>>)
         ELSE SplitFrom(s, i + 1, Append(cur, s[i]))

Split(s) == SplitFrom(s, 1, <<>>)

\* sorted() of a list of strings.
RECURSIVE InsertString(_, _)
InsertString(x, sorted) ==
    IF sorted = <<>> THEN <<x>>
    ELSE IF StrLess(x, Head(sorted)) THEN <<x>> \o sorted
    ELSE <<Head(sorted)>> \o InsertString(x, Tail(sorted))

RECURSIVE SortStrings(_)
SortStrings(list) ==
    IF list = <<>> THEN <<>>
    ELSE InsertString(list[Len(list)], SortStrings(SubSeq(list, 1, Len(list) - 1)))

\* " ".join(tokens)
RECURSIVE JoinSpace(_)
JoinSpace(tokens) ==
    IF tokens = <<>> THEN <<>>
    ELSE IF Len(tokens) = 1 THEN tokens[1]
    ELSE tokens[1] \o <<" ">> \o JoinSpace(Tail(tokens))

\* Length of the longest common subsequence of s[1..i] and t[1..j].
RECURSIVE LcsLen(_, _, _, _)
LcsLen(s, t, i, j) ==
    IF i = 0 \/ j = 0 THEN 0
    ELSE IF s[i] = t[j] THEN 1 + LcsLen(s, t, i - 1, j - 1)
    ELSE LET a == LcsLen(s, t, i - 1, j)
             b == LcsLen(s, t, i, j - 1)
         IN  IF a >= b THEN a ELSE b

\* fuzz.ratio: the normalized Indel similarity, 100 * 2*lcs / (len1 + len2);
\* two empty strings are fully similar.
ratio(s1, s2) ==
    IF Len(s1) + Len(s2) = 0 THEN Hundred
    ELSE Frac(200 * LcsLen(s1, s2, Len(s1), Len(s2)), Len(s1) + Len(s2))

\* fuzz.token_sort_ratio: ratio of the strings with their tokens sorted.
token_sort_ratio(s1, s2) ==
    ratio(JoinSpace(SortStrings(Split(s1))), JoinSpace(SortStrings(Split(s2))))

\* Stable sort of a list of tuples by their second component, highest first
\* (sorted(..., key=lambda x: x[1], reverse=True), heapq.nlargest).
RECURSIVE InsertByScore(_, _)
InsertByScore(x, sorted) ==
    IF sorted = <<>> THEN <<x>>
    ELSE IF ScoreLess(Head(sorted)[2], x[2]) THEN <<x>> \o sorted
    ELSE <<Head(sorted)>> \o InsertByScore(x, Tail(sorted))

RECURSIVE SortByScoreDesc(_)
SortByScoreDesc(list) ==
    IF list = <<>> THEN <<>>
    ELSE InsertByScore(list[Len(list)], SortByScoreDesc(SubSeq(list, 1, Len(list) - 1)))

\* limit=100 of the process.extract call.
ExtractLimit == 100

Take(list, n) == SubSeq(list, 1, IF Len(list) < n THEN Len(list) ELSE n)

\* process.extract(q, choices, scorer=fuzz.token_sort_ratio, limit=100,
\* score_cutoff=cutoff): the tuples (choice, score, index) with score >= cutoff,
\* best first, at most limit of them.
process_extract(q, choices, cutoff) ==
    LET scored == [i \in 1..Len(choices) |->
                      <<choices[i], token_sort_ratio(q, choices[i]), i>>]
        kept   == SelectSeq(scored, LAMBDA m : ScoreLeq(AsScore(cutoff), m[2]))
    IN  Take(SortByScoreDesc(kept), ExtractLimit)

(***************************************************************************)
(* build_song_index                                                        *)
(*                                                                         *)
(* worksheets is the ordered dict of load_excel_data: a sequence of        *)
(* [name, df]; df[r][c] is df.iloc[r, c], None for an empty (NaN) cell.    *)
(***************************************************************************)

isna(cell) == cell = None

NumColumns(df) == Cardinality(DOMAIN df[0])
NumRows(df) == Cardinality(DOMAIN df)

\* text.replace("Ausgangssong von:", "").replace("Ausgangssong von", "");
\* the phrase "Ausgangssong von" is the single token "AUSGANGSSONG_VON".
RECURSIVE DropPrefixColon(_, _)
DropPrefixColon(s, i) ==
    IF i > Len(s) THEN <<>>
    ELSE IF s[i] = "AUSGANGSSONG_VON" /\ i < Len(s) /\ s[i + 1] = ":"
         THEN DropPrefixColon(s, i + 2)
         ELSE <<s[i]>> \o DropPrefixColon(s, i + 1)

DropPrefix(s) == SelectSeq(DropPrefixColon(s, 1), LAMBDA c : c # "AUSGANGSSONG_VON")

\* The seed contributor parsed from row 2 of a column.
SeedContributor(df, col_idx) ==
    LET text == IF ~isna(df[1][col_idx]) THEN df[1][col_idx] ELSE <<>>
    IN  IF \E i \in 1..Len(text) : text[i] = "AUSGANGSSONG_VON"
        THEN Strip(DropPrefix(text))
        ELSE Strip(text)

\* df.iloc[2:, col_idx].dropna() without the blank strings, as a list.
RECURSIVE ColumnData(_, _, _)
ColumnData(df, col_idx, row) ==
    IF row >= NumRows(df) THEN <<>>
    ELSE IF ~isna(df[row][col_idx]) /\ Strip(df[row][col_idx]) # <<>>
         THEN <<df[row][col_idx]>> \o ColumnData(df, col_idx, row + 1)
         ELSE ColumnData(df, col_idx, row + 1)

\* d[k] = v on a dict
DictPut(d, k, v) == [x \in (DOMAIN d) \cup {k} |-> IF x = k THEN v ELSE d[x]]

\* The contributors dict of a column: the seed entry, then one assignment per
\* matching song, idx counting the songs of column_data from 0.
RECURSIVE ContributorsFrom(_, _, _, _)
ContributorsFrom(df, column_data, idx, contributors) ==
    IF idx >= Len(column_data) THEN contributors
    ELSE LET actual_row_idx == idx + 2
             contributor == IF ~isna(df[actual_row_idx][0])
                            THEN df[actual_row_idx][0] ELSE <<>>
         IN  ContributorsFrom(df, column_data, idx + 1,
                 DictPut(contributors, column_data[idx + 1], Strip(contributor)))

\* cluster_info of one column with a seed cell.
ClusterInfo(sheet_name, df, col_idx) ==
    LET seed_track  == Strip(df[0][col_idx])
        column_data == ColumnData(df, col_idx, 2)
    IN  [worksheet     |-> sheet_name,
         round_display |-> <<sheet_name, "Woche", col_idx>>,
         seed_track    |-> seed_track,
         all_songs     |-> <<seed_track>> \o column_data,
         contributors  |-> ContributorsFrom(df, column_data, 0,
                               [x \in {seed_track} |-> SeedContributor(df, col_idx)]),
         col_idx       |-> col_idx]

\* The guard of the column loop: pd.isna(df.iloc[0, col_idx]) -> continue.
SkipsColumn(df, col_idx) == isna(df[0][col_idx])

\* Position of key in the index under construction (0 if absent).
KeyPos(index, key) ==
    IF \E i \in 1..Len(index) : index[i].normalized = key
    THEN CHOOSE i \in 1..Len(index) : index[i].normalized = key
    ELSE 0

\* A plausible slip: the newest cluster reference is put first.
AddOccurrencePrepends(index, song, cluster_info) ==
    LET normalized == normalize_song_name(song)
        pos        == KeyPos(index, normalized)
    IN  IF pos = 0
        THEN Append(index, [normalized |-> normalized,
                            variants   |-> {song},
                            clusters   |-> <<cluster_info>>])
        ELSE [index EXCEPT ![pos].variants = @ \cup {song},
                           ![pos].clusters = <<cluster_info>> \o @]

\* A plausible slip: the normalized key is stored as the spelling.
AddOccurrenceStoresKey(index, song, cluster_info) ==
    LET normalized == normalize_song_name(song)
        pos        == KeyPos(index, normalized)
    IN  IF pos = 0
        THEN Append(index, [normalized |-> normalized,
                            variants   |-> {normalized},
                            clusters   |-> <<cluster_info>>])
        ELSE [index EXCEPT ![pos].variants = @ \cup {normalized},
                           ![pos].clusters = Append(@, cluster_info)]

\* song_index[normalized]['variants'].add(song);
\* song_index[normalized]['clusters'].append(cluster_info)
AddOccurrence(index, song, cluster_info) ==
    LET normalized == normalize_song_name(song)
        pos        == KeyPos(index, normalized)
    IN  IF pos = 0
        THEN Append(index, [normalized |-> normalized,
                            variants   |-> {song},
                            clusters   |-> <<cluster_info>>])
        ELSE [index EXCEPT ![pos].variants = @ \cup {song},
                           ![pos].clusters = Append(@, cluster_info)]

RECURSIVE IndexSongs(_, _, _, _)
IndexSongs(index, all_songs, i, cluster_info) ==
    IF i > Len(all_songs) THEN index
    ELSE IndexSongs(AddOccurrence(index, all_songs[i], cluster_info),
                    all_songs, i + 1, cluster_info)

RECURSIVE IndexColumns(_, _, _, _)
IndexColumns(index, sheet_name, df, col_idx) ==
    IF col_idx >= NumColumns(df) THEN index
    ELSE IF SkipsColumn(df, col_idx)
         THEN IndexColumns(index, sheet_name, df, col_idx + 1)
         ELSE LET cluster_info == ClusterInfo(sheet_name, df, col_idx)
              IN  IndexColumns(
                      IndexSongs(index, cluster_info.all_songs, 1, cluster_info),
                      sheet_name, df, col_idx + 1)

RECURSIVE IndexSheets(_, _, _)
IndexSheets(index, sheets, i) ==
    IF i > Len(sheets) THEN index
    ELSE IndexSheets(IndexColumns(index, sheets[i].name, sheets[i].df, 1),
                     sheets, i + 1)

\* sorted(list(a set of strings))
RECURSIVE SortedList(_)
SortedList(S) ==
    IF S = {} THEN <<>>
    ELSE LET m == CHOOSE x \in S : \A y \in S \ {x} : StrLess(x, y)
         IN  <<m>> \o SortedList(S \ {m})

\* A plausible slip: the count is the number of spellings, not of occurrences.
CountOfVariants(data) == Cardinality(data.variants)

\* 'count': len(data['clusters'])
CountOf(data) == Len(data.clusters)

\* The result dict: one entry per key, in insertion order.
build_song_index(sheets) ==
    LET built == IndexSheets(<<>>, sheets, 1)
    IN  [i \in 1..Len(built) |->
            [normalized |-> built[i].normalized,
             variants   |-> SortedList(built[i].variants),
             clusters   |-> built[i].clusters,
             count      |-> CountOf(built[i])]]

(***************************************************************************)
(* search_songs                                                            *)
(***************************************************************************)

\* list(song_index.keys())
IndexKeys(index) == [i \in 1..Len(index) |-> index[i].normalized]

\* song_index[normalized_name]
IndexEntry(index, key) == index[KeyPos(index, key)]

\* d[k] = v on an insertion-ordered dict kept as a list of <<k, v>>: an
\* existing key keeps its place.
OrderedPut(d, k, v) ==
    IF \E i \in 1..Len(d) : d[i][1] = k
    THEN [i \in 1..Len(d) |-> IF d[i][1] = k THEN <<k, v>> ELSE d[i]]
    ELSE Append(d, <<k, v>>)

\* A plausible slip: the cutoff is not passed on, every key is a candidate.
CandidateMatchesNoCutoff(query_normalized, index, fuzzy_threshold) ==
    process_extract(query_normalized, IndexKeys(index), 0)

\* Step 1: the fuzzy candidates (normalized_name, score, position).
CandidateMatches(query_normalized, index, fuzzy_threshold) ==
    process_extract(query_normalized, IndexKeys(index), fuzzy_threshold)

\* Step 2: the keys that contain the normalized query, each with score 100.
ExactMatches(query_normalized, index) ==
    LET names == IndexKeys(index)
        hits  == SelectSeq(names, LAMBDA n : Contains(n, query_normalized))
    IN  [i \in 1..Len(hits) |-> <<hits[i], Hundred>>]

RECURSIVE PutAll(_, _, _)
PutAll(d, pairs, i) ==
    IF i > Len(pairs) THEN d
    ELSE PutAll(OrderedPut(d, pairs[i][1], pairs[i][2]), pairs, i + 1)

\* A plausible slip: an exact match is added only when the key has no fuzzy
\* score yet (setdefault instead of assignment).
RECURSIVE PutMissing(_, _, _)
PutMissing(d, pairs, i) ==
    IF i > Len(pairs) THEN d
    ELSE IF \E j \in 1..Len(d) : d[j][1] = pairs[i][1]
         THEN PutMissing(d, pairs, i + 1)
         ELSE PutMissing(Append(d, pairs[i]), pairs, i + 1)

CombineMatchesKeepsFuzzy(candidate_matches, exact_matches) ==
    PutMissing([i \in 1..Len(candidate_matches) |->
                   <<candidate_matches[i][1], candidate_matches[i][2]>>],
               exact_matches, 1)

\* Step 3: all_matches, normalized_name -> score; the exact matches are
\* written last, with 100.
CombineMatches(candidate_matches, exact_matches) ==
    LET fuzzy == PutAll(<<>>, [i \in 1..Len(candidate_matches) |->
                     <<candidate_matches[i][1], candidate_matches[i][2]>>], 1)
    IN  PutAll(fuzzy, [i \in 1..Len(exact_matches) |->
                          <<exact_matches[i][1], Hundred>>], 1)

AllMatches(query_normalized, index, fuzzy_threshold) ==
    CombineMatches(CandidateMatches(query_normalized, index, fuzzy_threshold),
                   ExactMatches(query_normalized, index))

\* A plausible slip: clusters are told apart by their column alone.
ClusterKeyColumnOnly(cluster_info) == <<cluster_info.col_idx>>

\* cluster_key = (cluster_info['worksheet'], cluster_info['col_idx'])
ClusterKey(cluster_info) == <<cluster_info.worksheet, cluster_info.col_idx>>

ClusterPos(cluster_matches, cluster_key) ==
    IF \E i \in 1..Len(cluster_matches) : cluster_matches[i].cluster_key = cluster_key
    THEN CHOOSE i \in 1..Len(cluster_matches) :
             cluster_matches[i].cluster_key = cluster_key
    ELSE 0

\* The body of the inner loop of step 4 for one cluster of a matched key.
TrackMatch(cluster_matches, cluster_info, display_name, score, variants) ==
    LET cluster_key == ClusterKey(cluster_info)
        pos         == ClusterPos(cluster_matches, cluster_key)
        known       == IF pos = 0
                       THEN Append(cluster_matches,
                                [cluster_key   |-> cluster_key,
                                 cluster_info  |-> cluster_info,
                                 matched_songs |-> <<>>,
                                 song_variants |-> <<>>])
                       ELSE cluster_matches
        at          == IF pos = 0 THEN Len(known) ELSE pos
    IN  [known EXCEPT
            ![at].matched_songs = Append(@, <<display_name, score>>),
            ![at].song_variants = DictPut(@, display_name, variants)]

RECURSIVE TrackClusters(_, _, _, _, _, _)
TrackClusters(cluster_matches, clusters, i, display_name, score, variants) ==
    IF i > Len(clusters) THEN cluster_matches
    ELSE TrackClusters(
             TrackMatch(cluster_matches, clusters[i], display_name, score, variants),
             clusters, i + 1, display_name, score, variants)

\* display_name = variants[0] if variants else normalized_name
DisplayName(index_entry) ==
    IF index_entry.variants # <<>> THEN index_entry.variants[1]
    ELSE index_entry.normalized

\* Step 4: cluster_matches, (worksheet, col_idx) -> the matches of the cluster.
RECURSIVE GroupByCluster(_, _, _, _)
GroupByCluster(cluster_matches, all_matches, i, index) ==
    IF i > Len(all_matches) THEN cluster_matches
    ELSE LET index_entry == IndexEntry(index, all_matches[i][1])
         IN  GroupByCluster(
                 TrackClusters(cluster_matches, index_entry.clusters, 1,
                               DisplayName(index_entry), all_matches[i][2],
                               index_entry.variants),
                 all_matches, i + 1, index)

\* The seen-set loop: the first tuple of every song, in list order.
RECURSIVE FirstOfEach(_, _, _)
FirstOfEach(list, i, seen) ==
    IF i > Len(list) THEN <<>>
    ELSE IF list[i][1] \in seen THEN FirstOfEach(list, i + 1, seen)
    ELSE <<list[i]>> \o FirstOfEach(list, i + 1, seen \cup {list[i][1]})

\* A plausible slip: reverse=True is missing, the lowest score comes first.
RECURSIVE SortByScoreAsc(_)
SortByScoreAsc(list) ==
    IF list = <<>> THEN <<>>
    ELSE LET rest == SortByScoreAsc(Tail(list))
             low  == SelectSeq(rest, LAMBDA x : ScoreLess(x[2], Head(list)[2]))
             high == SelectSeq(rest, LAMBDA x : ~ScoreLess(x[2], Head(list)[2]))
         IN  low \o <<Head(list)>> \o high

UniqueMatchedAscending(matched_songs) == FirstOfEach(SortByScoreAsc(matched_songs), 1, {})

\* unique_matched: sorted by score, highest first, then deduplicated.
UniqueMatched(matched_songs) == FirstOfEach(SortByScoreDesc(matched_songs), 1, {})

\* One entry of results (step 5).
ResultOf(cluster_data) ==
    LET cluster_info   == cluster_data.cluster_info
        unique_matched == UniqueMatched(cluster_data.matched_songs)
    IN  [worksheet     |-> cluster_info.worksheet,
         round_display |-> cluster_info.round_display,
         seed_track    |-> cluster_info.seed_track,
         all_songs     |-> cluster_info.all_songs,
         matched_songs |-> [i \in 1..Len(unique_matched) |-> unique_matched[i][1]],
         match_scores  |-> [song \in {unique_matched[i][1] : i \in 1..Len(unique_matched)} |->
                               LET i == CHOOSE j \in 1..Len(unique_matched) :
                                            unique_matched[j][1] = song
                               IN  unique_matched[i][2]],
         contributors  |-> cluster_info.contributors,
         song_variants |-> cluster_data.song_variants]

ClusterMatches(q, index, fuzzy_threshold) ==
    GroupByCluster(<<>>, AllMatches(normalize_song_name(q), index, fuzzy_threshold),
                   1, index)

search_songs(q, index, fuzzy_threshold) ==
    IF q = None \/ q = <<>> THEN <<>>
    ELSE LET cluster_matches == ClusterMatches(q, index, fuzzy_threshold)
         IN  [i \in 1..Len(cluster_matches) |-> ResultOf(cluster_matches[i])]

(***************************************************************************)
(* get_song_connections and get_top_songs                                  *)
(***************************************************************************)

\* song_index.get(normalized, {'variants': [], 'clusters': []})
IndexGet(index, normalized) ==
    IF KeyPos(index, normalized) = 0
    THEN [normalized |-> normalized, variants |-> <<>>, clusters |-> <<>>, count |-> 0]
    ELSE index[KeyPos(index, normalized)]

\* One connection dict per cluster reference of the entry.
Connection(cluster_info) ==
    [round_display |-> cluster_info.round_display,
     seed_track    |-> cluster_info.seed_track,
     all_songs     |-> cluster_info.all_songs,
     contributors  |-> cluster_info.contributors]

\* In local mode song_index is the built index, never None (the early return
\* of line 581 is the database mode's).
get_song_connections(song_name, index) ==
    LET normalized == normalize_song_name(song_name)
        clusters   == IndexGet(index, normalized).clusters
    IN  [k \in 1..Len(clusters) |-> Connection(clusters[k])]

\* A plausible slip: the lookup song_index[normalized] on the defaultdict the
\* index is built in, which adds an entry for a key that is not there.
IndexAfterConnectionsInserting(song_name, index) ==
    LET normalized == normalize_song_name(song_name)
    IN  IF KeyPos(index, normalized) = 0
        THEN Append(index, IndexGet(index, normalized))
        ELSE index

\* The index after get_song_connections: dict.get with a default and reads
\* of the entry write nothing.
IndexAfterConnections(song_name, index) == index

\* The " - " of the artist-song format.
ArtistSongSeparator == <<" ", "-", " ">>

\* The dict get_top_songs appends for an index entry.
TopSong(data) ==
    [name       |-> data.variants[1],
     normalized |-> data.normalized,
     count      |-> data.count,
     variants   |-> data.variants,
     clusters   |-> data.clusters]

\* The entries that pass the filter of line 555, in index order.
TopCandidates(index) ==
    LET kept == SelectSeq(index, LAMBDA data : Contains(data.variants[1], ArtistSongSeparator))
    IN  [k \in 1..Len(kept) |-> TopSong(kept[k])]

\* A plausible slip: reverse=True left out, lowest count first.
RECURSIVE InsertByCountAscending(_, _)
InsertByCountAscending(x, sorted) ==
    IF sorted = <<>> THEN <<x>>
    ELSE IF x.count < Head(sorted).count THEN <<x>> \o sorted
    ELSE <<Head(sorted)>> \o InsertByCountAscending(x, Tail(sorted))

\* sorted(songs, key=count, reverse=True) is stable: x goes before the first
\* entry with a lower count.
RECURSIVE InsertByCount(_, _)
InsertByCount(x, sorted) ==
    IF sorted = <<>> THEN <<x>>
    ELSE IF Head(sorted).count < x.count THEN <<x>> \o sorted
    ELSE <<Head(sorted)>> \o InsertByCount(x, Tail(sorted))

RECURSIVE SortByCountDesc(_)
SortByCountDesc(songs) ==
    IF songs = <<>> THEN <<>>
    ELSE InsertByCount(songs[Len(songs)], SortByCountDesc(SubSeq(songs, 1, Len(songs) - 1)))

get_top_songs(index, limit) == Take(SortByCountDesc(TopCandidates(index)), limit)

(***************************************************************************)
(* search_songs_db (src/db.py)                                             *)
(***************************************************************************)

\* The rows of the search_songs RPC for a backend that does the specified
\* matching on the same data: one row per cluster and hit, similarity_score
\* the score on the scale 0..1.  threshold is fuzzy_threshold / 100.
RpcSearchSongs(query_text, rpc_threshold, index) ==
    LET percent == (rpc_threshold[1] * 100) \div rpc_threshold[2]
        found   == search_songs(query_text, index, percent)
        RowsOf(entry) ==
            [k \in 1..Len(entry.matched_songs) |->
                [cluster_id       |-> <<entry.worksheet, entry.round_display>>,
                 round_display    |-> entry.round_display,
                 seed_track       |-> entry.seed_track,
                 song_name        |-> entry.matched_songs[k],
                 similarity_score |->
                     LET score == entry.match_scores[entry.matched_songs[k]]
                     IN  Frac(score[1], score[2] * 100)]]
        RECURSIVE Rows(_)
        Rows(i) == IF i > Len(found) THEN <<>> ELSE RowsOf(found[i]) \o Rows(i + 1)
    IN  Rows(1)

\* int(row['similarity_score'] * 100)
IntPercent(similarity_score) == (similarity_score[1] * 100) \div similarity_score[2]

\* clusters[cluster_id] after the row: created on first sight, then the hit
\* appended and its score stored.
RECURSIVE GroupRows(_, _, _)
GroupRows(clusters, result, i) ==
    IF i > Len(result) THEN clusters
    ELSE LET row == result[i]
             pos == IF \E n \in 1..Len(clusters) : clusters[n].cluster_id = row.cluster_id
                    THEN CHOOSE n \in 1..Len(clusters) : clusters[n].cluster_id = row.cluster_id
                    ELSE 0
             old == IF pos = 0
                    THEN [cluster_id    |-> row.cluster_id,
                          round_display |-> row.round_display,
                          seed_track    |-> row.seed_track,
                          matched_songs |-> <<>>,
                          match_scores  |-> <<>>]
                    ELSE clusters[pos]
             new == [old EXCEPT
                        !.matched_songs = Append(@, row.song_name),
                        !.match_scores  = DictPut(@, row.song_name,
                                                  IntPercent(row.similarity_score))]
         IN  GroupRows(IF pos = 0 THEN Append(clusters, new)
                       ELSE [clusters EXCEPT ![pos] = new],
                       result, i + 1)

\* search_songs_db without the second round trip (get_cluster_songs fills
\* all_songs and contributors, which are no part of the match).
search_songs_db(q, fuzzy_threshold, index) ==
    IF q = None \/ q = <<>> \/ Len(q) < 2 THEN <<>>
    ELSE GroupRows(<<>>, RpcSearchSongs(q, Frac(fuzzy_threshold, 100), index), 1)

(***************************************************************************)
(* The workbooks and calls of the model                                    *)
(***************************************************************************)

\* The worksheets of the workbook, in file order.
SheetNames == <<"R1", "R2">>

\* Every sheet has rows 0..3 (seed, seed contributor, two song rows) and
\* columns 0..1 (contributors, one cluster).
RowIdxs == 0..3
ColIdxs == 0..1

\* The cells of a workbook that hold songs: (sheet, row, column).
SongPositions ==
    {<<sh, r, c>> : sh \in 1..Len(SheetNames), r \in RowIdxs \ {1}, c \in ColIdxs \ {0}}

\* What a song cell may hold: two spellings of one song, a song whose key is
\* part of theirs, the same words in another order, and a blank cell.
SongCells ==
    { <<"a", "-", "b">>, <<"A", " ", "-", " ", "b">>, <<"b">>,
      <<"b", " ", "a">>, <<" ">> }

\* A workbook holds at most MaxSongs non-empty song cells.
MaxSongs == 3

Fillings ==
    {g \in [SongPositions -> SongCells \cup {None}] :
        Cardinality({p \in SongPositions : g[p] # None}) <= MaxSongs}

Workbook(g) ==
    [sh \in 1..Len(SheetNames) |->
        [name |-> SheetNames[sh],
         df   |-> [r \in RowIdxs |-> [c \in ColIdxs |->
                      IF <<sh, r, c>> \in SongPositions THEN g[<<sh, r, c>>] ELSE None]]]]

\* The queries typed into the search box: empty, blank, part of a song, the
\* words of a song in another order, and one that matches nothing.
Queries ==
    { <<>>, <<" ">>, <<"b">>, <<"a", " ", "b">>, <<"z", "z">> }

\* The values of the threshold slider that are tried.
Thresholds == {50, 70}

\* The songs whose connections are asked for: two indexed songs and one that
\* is in no workbook.
ConnSongs == { <<"a", "-", "b">>, <<"b">>, <<"z", "z">> }

\* The song cells of the workbooks get_top_songs is run on: two songs in
\* artist-song format, a spelling without the separator, and a non-song.
TopSongCells ==
    { <<"A", " ", "-", " ", "b">>, <<"a", "-", "b">>,
      <<"b", " ", "-", " ", "a">>, <<"b">> }

TopFillings ==
    {g \in [SongPositions -> TopSongCells \cup {None}] :
        Cardinality({p \in SongPositions : g[p] # None}) <= MaxSongs}

\* The limits get_top_songs is called with (50 is the caller's).
Limits == {1, 2, 50}

\* The inputs of normalize_song_name: None and every string of at most
\* MaxNormLen characters of NormAlphabet.
NormAlphabet == {"a", "A", " ", "TAB", "-", "EACUTE", "COMB_ACUTE", "BACKTICK"}

MaxNormLen == 4

(***************************************************************************)
(* State machine                                                           *)
(***************************************************************************)

NormIdle ==
    /\ norm_in = None
    /\ norm_out = None
    /\ norm_twice = None
    /\ norm_pc = "start"

\* The locals of a call that has not processed anything yet.
EmptyFrame == [sheets |-> <<>>, index |-> <<>>, sh |-> 1, col |-> 1]

\* main() itself is not being followed.
MainIdle ==
    /\ source = <<>>
    /\ main_pc = "idle"
    /\ frame = EmptyFrame
    /\ error_shown = FALSE

\* The parts of the program outside the song index are not being followed.
ExtIdle ==
    /\ req = <<>>
    /\ copies = <<>>
    /\ push = <<>>
    /\ retry = <<>>
    /\ nav = <<>>
    /\ pager = <<>>
    /\ likes = <<>>
    /\ validation = <<>>

CallIdle ==
    /\ conn_song = None
    /\ connections = <<>>
    /\ top_limit = 0
    /\ top_songs = <<>>
    /\ db_results = <<>>

SearchIdle ==
    /\ worksheets = <<>>
    /\ song_index = <<>>
    /\ phase = "loaded"
    /\ query = None
    /\ threshold = 70
    /\ results = <<>>

\* The song index, the normalizer and main() are not being followed.
CoreIdle ==
    /\ SearchIdle
    /\ NormIdle
    /\ CallIdle
    /\ MainIdle

\* The state after load_excel_data: a workbook is in memory, no index yet.
Init ==
    /\ \E g \in Fillings : worksheets = Workbook(g)
    /\ song_index = <<>>
    /\ phase = "loaded"
    /\ query = None
    /\ threshold = 70
    /\ results = <<>>
    /\ NormIdle
    /\ CallIdle
    /\ MainIdle
    /\ ExtIdle

\* song_index = build_song_index(worksheets)
BuildSongIndex ==
    /\ phase = "loaded"
    /\ song_index' = build_song_index(worksheets)
    /\ phase' = "indexed"
    /\ UNCHANGED <<worksheets, query, threshold, results>>
    /\ UNCHANGED normVars
    /\ UNCHANGED mainVars
    /\ UNCHANGED extVars
    /\ UNCHANGED callVars

\* results = search_songs(search_query, song_index, fuzzy_threshold)
SearchSongs ==
    /\ phase = "indexed"
    /\ \E q \in Queries, t \in Thresholds :
          /\ query' = q
          /\ threshold' = t
          /\ results' = search_songs(q, song_index, t)
    /\ UNCHANGED <<worksheets, song_index, phase>>
    /\ UNCHANGED normVars
    /\ UNCHANGED mainVars
    /\ UNCHANGED extVars
    /\ UNCHANGED callVars

Next ==
    \/ BuildSongIndex
    \/ SearchSongs

Spec == Init /\ [][Next]_vars

\* normalize_song_name on its own: one call, then a call on the result.
InitNorm ==
    /\ SearchIdle
    /\ CallIdle
    /\ MainIdle
    /\ ExtIdle
    /\ norm_in \in Strings(NormAlphabet, 0, MaxNormLen) \cup {None}
    /\ norm_out = None
    /\ norm_twice = None
    /\ norm_pc = "start"

NormalizeOnce ==
    /\ norm_pc = "start"
    /\ norm_out' = normalize_song_name(norm_in)
    /\ norm_pc' = "once"
    /\ UNCHANGED <<norm_in, norm_twice>>
    /\ UNCHANGED searchVars
    /\ UNCHANGED mainVars
    /\ UNCHANGED extVars
    /\ UNCHANGED callVars

NormalizeTwice ==
    /\ norm_pc = "once"
    /\ norm_twice' = normalize_song_name(norm_out)
    /\ norm_pc' = "twice"
    /\ UNCHANGED <<norm_in, norm_out>>
    /\ UNCHANGED searchVars
    /\ UNCHANGED mainVars
    /\ UNCHANGED extVars
    /\ UNCHANGED callVars

NextNorm ==
    \/ NormalizeOnce
    \/ NormalizeTwice

SpecNorm == InitNorm /\ [][NextNorm]_vars

\* connections = get_song_connections(selected_song, song_index)
GetSongConnections ==
    /\ phase = "indexed"
    /\ \E s \in ConnSongs :
          /\ conn_song' = s
          /\ connections' = get_song_connections(s, song_index)
          /\ song_index' = IndexAfterConnections(s, song_index)
    /\ UNCHANGED <<worksheets, phase, query, threshold, results>>
    /\ UNCHANGED <<top_limit, top_songs, db_results>>
    /\ UNCHANGED normVars
    /\ UNCHANGED mainVars
    /\ UNCHANGED extVars

NextConn ==
    \/ BuildSongIndex
    \/ GetSongConnections

SpecConn == Init /\ [][NextConn]_vars

\* top_songs = get_top_songs(song_index, limit)
GetTopSongs ==
    /\ phase = "indexed"
    /\ \E limit \in Limits :
          /\ top_limit' = limit
          /\ top_songs' = get_top_songs(song_index, limit)
    /\ UNCHANGED <<worksheets, song_index, phase, query, threshold, results>>
    /\ UNCHANGED <<conn_song, connections, db_results>>
    /\ UNCHANGED normVars
    /\ UNCHANGED mainVars
    /\ UNCHANGED extVars

InitTop ==
    /\ \E g \in TopFillings : worksheets = Workbook(g)
    /\ song_index = <<>>
    /\ phase = "loaded"
    /\ query = None
    /\ threshold = 70
    /\ results = <<>>
    /\ NormIdle
    /\ CallIdle
    /\ MainIdle
    /\ ExtIdle

NextTop ==
    \/ BuildSongIndex
    \/ GetTopSongs

SpecTop == InitTop /\ [][NextTop]_vars

\* normalize_song_name on strings of letters, accents, quote variants and
\* dash variants.
GlyphAlphabet ==
    {"a", "A", "EACUTE_UP", "COMB_ACUTE", "BACKTICK", "ACUTE", "LSQUO", "RSQUO",
     "LDQUO", "ENDASH", "EMDASH", "MINUS"}

MaxGlyphLen == 2

InitGlyph ==
    /\ SearchIdle
    /\ CallIdle
    /\ MainIdle
    /\ ExtIdle
    /\ norm_in \in Strings(GlyphAlphabet, 0, MaxGlyphLen)
    /\ norm_out = None
    /\ norm_twice = None
    /\ norm_pc = "start"

SpecGlyph == InitGlyph /\ [][NextNorm]_vars

\* build_song_index on sheets with two cluster columns: rows 0..2 (seed,
\* seed contributor, one song row), columns 0..2.
OrderRowIdxs == 0..2
OrderColIdxs == 0..2

OrderPositions ==
    {<<sh, r, c>> : sh \in 1..Len(SheetNames), r \in OrderRowIdxs \ {1},
                    c \in OrderColIdxs \ {0}}

OrderSongCells == { <<"a", "-", "b">>, <<"A", " ", "-", " ", "b">>, <<"b">> }

OrderFillings ==
    {g \in [OrderPositions -> OrderSongCells \cup {None}] :
        Cardinality({p \in OrderPositions : g[p] # None}) <= MaxSongs}

OrderWorkbook(g) ==
    [sh \in 1..Len(SheetNames) |->
        [name |-> SheetNames[sh],
         df   |-> [r \in OrderRowIdxs |-> [c \in OrderColIdxs |->
                      IF <<sh, r, c>> \in OrderPositions THEN g[<<sh, r, c>>] ELSE None]]]]

InitOrder ==
    /\ \E g \in OrderFillings : worksheets = OrderWorkbook(g)
    /\ song_index = <<>>
    /\ phase = "loaded"
    /\ query = None
    /\ threshold = 70
    /\ results = <<>>
    /\ NormIdle
    /\ CallIdle
    /\ MainIdle
    /\ ExtIdle

NextOrder == BuildSongIndex

SpecOrder == InitOrder /\ [][NextOrder]_vars

\* The three readers of the index on one workbook: the songs are in the
\* first sheet, the second sheet is empty.
CallFillings ==
    {g \in Fillings : \A p \in SongPositions : g[p] # None => p[1] = 1}

InitCalls ==
    /\ \E g \in CallFillings : worksheets = Workbook(g)
    /\ song_index = <<>>
    /\ phase = "loaded"
    /\ query = None
    /\ threshold = 70
    /\ results = <<>>
    /\ NormIdle
    /\ CallIdle
    /\ MainIdle
    /\ ExtIdle

NextCalls ==
    \/ BuildSongIndex
    \/ SearchSongs
    \/ GetSongConnections
    \/ GetTopSongs

SpecCalls == InitCalls /\ [][NextCalls]_vars

\* One run of main() in Excel mode (try block of lines 1227-1262):
\* load_excel_data reads the file sheet by sheet, build_song_index fills its
\* local index column by column, and only their return values reach the
\* locals worksheets and song_index that the views read.  Any step of either
\* call may raise.
MainSongCells == { <<"a", "-", "b">>, <<"b">> }

MainFillings ==
    {g \in [SongPositions -> MainSongCells \cup {None}] :
        Cardinality({p \in SongPositions : g[p] # None}) <= MaxSongs}

InitMain ==
    /\ \E g \in MainFillings : source = Workbook(g)
    /\ main_pc = "loading"
    /\ frame = EmptyFrame
    /\ error_shown = FALSE
    /\ worksheets = <<>>
    /\ song_index = <<>>
    /\ phase = "start"
    /\ query = None
    /\ threshold = 70
    /\ results = <<>>
    /\ NormIdle
    /\ CallIdle
    /\ ExtIdle

\* load_excel_data: worksheets[sheet_name] = pd.read_excel(...) for the next sheet
LoadSheet ==
    /\ main_pc = "loading"
    /\ frame.sh <= Len(source)
    /\ frame' = [frame EXCEPT !.sheets = Append(@, source[frame.sh]), !.sh = @ + 1]
    /\ UNCHANGED <<source, main_pc, error_shown>>
    /\ UNCHANGED <<searchVars, normVars, callVars>>
    /\ UNCHANGED extVars

\* pd.ExcelFile or pd.read_excel raises
LoadRaises ==
    /\ main_pc = "loading"
    /\ frame.sh <= Len(source)
    /\ main_pc' = "raised"
    /\ UNCHANGED <<source, frame, error_shown>>
    /\ UNCHANGED <<searchVars, normVars, callVars>>
    /\ UNCHANGED extVars

\* worksheets = load_excel_data(database_file), then the call of build_song_index
LoadReturn ==
    /\ main_pc = "loading"
    /\ frame.sh > Len(source)
    /\ worksheets' = frame.sheets
    /\ phase' = "loaded"
    /\ main_pc' = "building"
    /\ frame' = EmptyFrame
    /\ UNCHANGED <<source, error_shown>>
    /\ UNCHANGED <<song_index, query, threshold, results>>
    /\ UNCHANGED <<normVars, callVars>>
    /\ UNCHANGED extVars

\* A plausible slip: the return statement inside the worksheet loop.
BuildDoneAfterFirstSheet(f, sheets) == f.sh > 1

\* build_song_index has left its worksheet loop.
BuildDone(f, sheets) == f.sh > Len(sheets)

\* One pass of the column loop of build_song_index on the local index.
StepColumn(index, sheet_name, df, col_idx) ==
    IF SkipsColumn(df, col_idx) THEN index
    ELSE LET cluster_info == ClusterInfo(sheet_name, df, col_idx)
         IN  IndexSongs(index, cluster_info.all_songs, 1, cluster_info)

\* The dict build_song_index returns for its local index.
IndexResult(built) ==
    [i \in 1..Len(built) |->
        [normalized |-> built[i].normalized,
         variants   |-> SortedList(built[i].variants),
         clusters   |-> built[i].clusters,
         count      |-> CountOf(built[i])]]

BuildColumn ==
    /\ main_pc = "building"
    /\ ~BuildDone(frame, worksheets)
    /\ LET sheet == worksheets[frame.sh]
       IN  frame' = IF frame.col >= NumColumns(sheet.df)
                    THEN [frame EXCEPT !.sh = @ + 1, !.col = 1]
                    ELSE [frame EXCEPT
                             !.index = StepColumn(@, sheet.name, sheet.df, frame.col),
                             !.col = @ + 1]
    /\ UNCHANGED <<source, main_pc, error_shown>>
    /\ UNCHANGED <<searchVars, normVars, callVars>>
    /\ UNCHANGED extVars

\* an exception leaves build_song_index before its return
BuildRaises ==
    /\ main_pc = "building"
    /\ ~BuildDone(frame, worksheets)
    /\ main_pc' = "raised"
    /\ UNCHANGED <<source, frame, error_shown>>
    /\ UNCHANGED <<searchVars, normVars, callVars>>
    /\ UNCHANGED extVars

\* song_index = build_song_index(worksheets); the views follow
BuildReturn ==
    /\ main_pc = "building"
    /\ BuildDone(frame, worksheets)
    /\ song_index' = IndexResult(frame.index)
    /\ phase' = "indexed"
    /\ main_pc' = "serving"
    /\ UNCHANGED <<source, frame, error_shown>>
    /\ UNCHANGED <<worksheets, query, threshold, results>>
    /\ UNCHANGED <<normVars, callVars>>
    /\ UNCHANGED extVars

\* except Exception as e: st.error(...); return
HandleError ==
    /\ main_pc = "raised"
    /\ error_shown' = TRUE
    /\ main_pc' = "returned"
    /\ UNCHANGED <<source, frame>>
    /\ UNCHANGED <<searchVars, normVars, callVars>>
    /\ UNCHANGED extVars

NextMain ==
    \/ LoadSheet
    \/ LoadRaises
    \/ LoadReturn
    \/ BuildColumn
    \/ BuildRaises
    \/ BuildReturn
    \/ HandleError
    \/ SearchSongs
    \/ GetSongConnections
    \/ GetTopSongs

SpecMain == InitMain /\ [][NextMain]_vars

\* search_songs as a function any caller may use: the fuzzy_threshold
\* argument is an unconstrained number.
AnyThresholds == {-5, 70, 150}

\* results = search_songs(query, song_index, fuzzy_threshold), any caller
SearchSongsAnyThreshold ==
    /\ phase = "indexed"
    /\ \E q \in Queries, t \in AnyThresholds :
          /\ query' = q
          /\ threshold' = t
          /\ results' = search_songs(q, song_index, t)
    /\ UNCHANGED <<worksheets, song_index, phase>>
    /\ UNCHANGED normVars
    /\ UNCHANGED mainVars
    /\ UNCHANGED extVars
    /\ UNCHANGED callVars

NextAnyCaller ==
    \/ BuildSongIndex
    \/ SearchSongsAnyThreshold

SpecAnyCaller == InitCalls /\ [][NextAnyCaller]_vars

\* The same query and threshold in local mode and in database mode.
SearchBothModes ==
    /\ phase = "indexed"
    /\ \E q \in Queries, t \in Thresholds :
          /\ query' = q
          /\ threshold' = t
          /\ results' = search_songs(q, song_index, t)
          /\ db_results' = search_songs_db(q, t, song_index)
    /\ UNCHANGED <<worksheets, song_index, phase>>
    /\ UNCHANGED <<conn_song, connections, top_limit, top_songs>>
    /\ UNCHANGED normVars
    /\ UNCHANGED mainVars
    /\ UNCHANGED extVars

NextBothModes ==
    \/ BuildSongIndex
    \/ SearchBothModes

SpecBothModes == InitCalls /\ [][NextBothModes]_vars

\* build_song_index on a sheet whose contributor cells are filled in: one
\* sheet, column 0 the contributors, column 1 one cluster.
ContribSeedCells == { None, <<"b">>, <<"a", "-", "b">> }

\* Row 2 of the cluster column: empty, "Ausgangssong von: x", or a bare name.
ContribAnnotations == { None, <<"AUSGANGSSONG_VON", ":", " ", "x">>, <<"y">> }

\* Column 0 of a song row: empty or a contributor's name.
ContribNames == { None, <<"x">>, <<"y", " ">> }

\* A song row of the cluster column: empty, a song, the other song, blank.
ContribSongCells == { None, <<"b">>, <<"a", "-", "b">>, <<" ">> }

ContribSheet(seed, note, n2, n3, s2, s3) ==
    [name |-> SheetNames[1],
     df   |-> [r \in RowIdxs |-> [c \in ColIdxs |->
                  CASE r = 0 /\ c = 1 -> seed
                    [] r = 1 /\ c = 1 -> note
                    [] r = 2 /\ c = 0 -> n2
                    [] r = 3 /\ c = 0 -> n3
                    [] r = 2 /\ c = 1 -> s2
                    [] r = 3 /\ c = 1 -> s3
                    [] OTHER -> None]]]

InitContrib ==
    /\ \E seed \in ContribSeedCells, note \in ContribAnnotations,
          n2 \in ContribNames, n3 \in ContribNames,
          s2 \in ContribSongCells, s3 \in ContribSongCells :
          worksheets = <<ContribSheet(seed, note, n2, n3, s2, s3)>>
    /\ song_index = <<>>
    /\ phase = "loaded"
    /\ query = None
    /\ threshold = 70
    /\ results = <<>>
    /\ NormIdle
    /\ CallIdle
    /\ MainIdle
    /\ ExtIdle

NextContrib == BuildSongIndex

SpecContrib == InitContrib /\ [][NextContrib]_vars

(***************************************************************************)
(* Properties of search_songs and build_song_index                         *)
(***************************************************************************)

\* The last search_songs call got past its early return.
Searched == phase = "indexed" /\ query # None /\ query # <<>>

NQ == normalize_song_name(query)

RangeOf(list) == {list[i] : i \in 1..Len(list)}

\* The token-sort score of the i-th key of the index against the query.
FuzzyScore(i) == token_sort_ratio(NQ, song_index[i].normalized)

PassesCutoff(i) == ScoreLeq(AsScore(threshold), FuzzyScore(i))

\* The i-th key is among the ExtractLimit best-scoring keys that pass the cutoff.
AmongBest(i) ==
    Cardinality({j \in 1..Len(song_index) :
        /\ j # i
        /\ PassesCutoff(j)
        /\ \/ ScoreLess(FuzzyScore(i), FuzzyScore(j))
           \/ FuzzyScore(i) = FuzzyScore(j) /\ j < i}) < ExtractLimit

IsFuzzyHit(i) == PassesCutoff(i) /\ AmongBest(i)

IsSubstringHit(i) == Contains(song_index[i].normalized, NQ)

IsMatched(i) == IsFuzzyHit(i) \/ IsSubstringHit(i)

\* The identity of a cluster, as an index cluster and as a result entry carry it.
ClusterId(c) == <<c.worksheet, c.round_display>>

\* The result entries of the cluster c.
EntriesOf(c) == {n \in 1..Len(results) : ClusterId(results[n]) = ClusterId(c)}

\* C1: for a non-empty query whose normalized form is a substring of an index
\* key, every cluster that contains the key has a result entry that lists the
\* key (under its display name) with score exactly 100, whatever the threshold
\* and the token-sort score.
C1_SubstringScores100 ==
    Searched =>
        \A i \in 1..Len(song_index) :
            IsSubstringHit(i) =>
                \A c \in RangeOf(song_index[i].clusters) :
                    \E n \in EntriesOf(c) :
                        /\ DisplayName(song_index[i]) \in RangeOf(results[n].matched_songs)
                        /\ results[n].match_scores[DisplayName(song_index[i])] = Hundred

\* C1 witness: a key that contains the query also passed the cutoff with a
\* token-sort score below 100, and is reported with 100.
C1_Witness ==
    /\ Searched
    /\ \E i \in 1..Len(song_index) :
          /\ IsSubstringHit(i)
          /\ IsFuzzyHit(i)
          /\ ScoreLess(FuzzyScore(i), Hundred)
          /\ \E n \in 1..Len(results) :
                /\ DisplayName(song_index[i]) \in DOMAIN results[n].match_scores
                /\ results[n].match_scores[DisplayName(song_index[i])] = Hundred

\* C2: a query that is empty, or whose normalized form is empty (a query of
\* white space only), gives an empty result list; so does a query that
\* matches no key at the threshold.
C2_EmptyQueryNoResults ==
    phase = "indexed" =>
        /\ (query = None \/ query = <<>> \/ NQ = <<>>) => results = <<>>
        /\ (Searched /\ \A i \in 1..Len(song_index) : ~IsMatched(i)) => results = <<>>

\* The cluster ids of the clusters that hold an occurrence of a matched key.
MatchedClusterIds ==
    {ClusterId(c) : c \in UNION {RangeOf(song_index[i].clusters) :
                                    i \in {j \in 1..Len(song_index) : IsMatched(j)}}}

\* C3: the result list has exactly one entry per cluster (worksheet, column)
\* that holds an occurrence of a matched key and none for any other cluster;
\* every matched song of the cluster is a hit of that one entry.
C3_OneEntryPerCluster ==
    Searched =>
        /\ \A m, n \in 1..Len(results) :
               ClusterId(results[m]) = ClusterId(results[n]) => m = n
        /\ {ClusterId(results[n]) : n \in 1..Len(results)} = MatchedClusterIds
        /\ \A i \in 1..Len(song_index) :
               IsMatched(i) =>
                   \A c \in RangeOf(song_index[i].clusters) :
                       \A n \in EntriesOf(c) :
                           DisplayName(song_index[i]) \in RangeOf(results[n].matched_songs)

\* C3 witness: two clusters are returned, one of them with two matched songs.
C3_Witness ==
    /\ Searched
    /\ Len(results) = 2
    /\ \E n \in 1..Len(results) : Len(results[n].matched_songs) >= 2

\* The seed cell of a column is empty, missing or blank.
SeedIsBlank(df, col_idx) == isna(df[0][col_idx]) \/ Strip(df[0][col_idx]) = <<>>

\* C4: a column whose seed cell is empty, missing or blank contributes no
\* cluster reference to the index, and no indexed cluster has an empty
\* seed_track.
C4_BlankSeedNotIndexed ==
    phase = "indexed" =>
        \A i \in 1..Len(song_index) :
            \A c \in RangeOf(song_index[i].clusters) :
                /\ c.seed_track # <<>>
                /\ \A sh \in 1..Len(worksheets) :
                       (worksheets[sh].name = c.worksheet)
                           => ~SeedIsBlank(worksheets[sh].df, c.col_idx)

\* C5: normalize_song_name returns a string for every input, the empty
\* string for None and for the empty string, and normalizing its result
\* again changes nothing.
C5_NormalizeIdempotent ==
    /\ norm_pc # "start" =>
          /\ norm_out # None
          /\ (norm_in = None \/ norm_in = <<>>) => norm_out = <<>>
    /\ norm_pc = "twice" => norm_twice = norm_out

\* C5 witness: an input with a hyphen was changed by the first call and the
\* second call has run.
C5_Witness ==
    /\ norm_pc = "twice"
    /\ norm_in # None
    /\ norm_out # norm_in
    /\ \E i \in 1..Len(norm_in) : norm_in[i] = "-"
    /\ \E i \in 1..Len(norm_out) : norm_out[i] = "-"

\* C6: every index key has a non-empty variant list without duplicates, each
\* variant is a spelling written in one of the key's clusters, and each
\* variant normalizes to the key.
C6_VariantsNormalizeToKey ==
    phase = "indexed" =>
        \A i \in 1..Len(song_index) :
            LET e == song_index[i] IN
            /\ e.variants # <<>>
            /\ \A m, n \in 1..Len(e.variants) : e.variants[m] = e.variants[n] => m = n
            /\ \A v \in RangeOf(e.variants) :
                  /\ normalize_song_name(v) = e.normalized
                  /\ \E c \in RangeOf(e.clusters) : v \in RangeOf(c.all_songs)

\* C6 witness: a key with two spellings, neither of them the key itself.
C6_Witness ==
    /\ phase = "indexed"
    /\ \E i \in 1..Len(song_index) :
          /\ Len(song_index[i].variants) >= 2
          /\ song_index[i].normalized \notin RangeOf(song_index[i].variants)

\* The occurrences of key in the column col_idx of df (0 for a skipped column).
Occurrences(key, sheet_name, df, col_idx) ==
    IF SkipsColumn(df, col_idx) THEN 0
    ELSE LET all_songs == ClusterInfo(sheet_name, df, col_idx).all_songs
         IN  Cardinality({n \in 1..Len(all_songs) :
                             normalize_song_name(all_songs[n]) = key})

\* The references of entry e to the cluster of column col_idx of the sheet.
References(e, sheet_name, col_idx) ==
    Cardinality({n \in 1..Len(e.clusters) :
        e.clusters[n].worksheet = sheet_name /\ e.clusters[n].col_idx = col_idx})

\* C7: count is the length of the cluster list, and the cluster list refers
\* to each indexed cluster once per occurrence of the key in it (twice for a
\* song written twice); every key that occurs has an entry.
C7_CountIsOccurrences ==
    phase = "indexed" =>
        /\ \A i \in 1..Len(song_index) :
              LET e == song_index[i] IN
              /\ e.count = Len(e.clusters)
              /\ \A sh \in 1..Len(worksheets) :
                    \A col_idx \in 1..(NumColumns(worksheets[sh].df) - 1) :
                        References(e, worksheets[sh].name, col_idx)
                            = Occurrences(e.normalized, worksheets[sh].name,
                                          worksheets[sh].df, col_idx)
        /\ \A sh \in 1..Len(worksheets) :
              \A col_idx \in 1..(NumColumns(worksheets[sh].df) - 1) :
                  ~SkipsColumn(worksheets[sh].df, col_idx) =>
                      \A song \in RangeOf(ClusterInfo(worksheets[sh].name,
                                              worksheets[sh].df, col_idx).all_songs) :
                          KeyPos(song_index, normalize_song_name(song)) # 0

\* C7 witness: a key counted three times, twice for the same cluster.
C7_Witness ==
    /\ phase = "indexed"
    /\ \E i \in 1..Len(song_index) :
          /\ song_index[i].count = 3
          /\ \E m, n \in 1..Len(song_index[i].clusters) :
                /\ m # n
                /\ ClusterId(song_index[i].clusters[m]) = ClusterId(song_index[i].clusters[n])
          /\ \E m, n \in 1..Len(song_index[i].clusters) :
                ClusterId(song_index[i].clusters[m]) # ClusterId(song_index[i].clusters[n])

\* The score a matched key is returned with.
ExpectedScore(i) == IF IsSubstringHit(i) THEN Hundred ELSE FuzzyScore(i)

\* C8: every hit has a score between the threshold and 100; the hits are the
\* display names of exactly the keys whose token-sort score reaches the
\* threshold (among the 100 best) or that contain the query, each with its
\* token-sort score, or 100 for a key that contains the query.
C8_ScoresWithinThreshold ==
    Searched =>
        /\ \A n \in 1..Len(results) :
              \A song \in RangeOf(results[n].matched_songs) :
                  /\ ScoreLeq(AsScore(threshold), results[n].match_scores[song])
                  /\ ScoreLeq(results[n].match_scores[song], Hundred)
        /\ UNION {{<<song, results[n].match_scores[song]>> :
                      song \in RangeOf(results[n].matched_songs)} : n \in 1..Len(results)}
             = {<<DisplayName(song_index[i]), ExpectedScore(i)>> :
                   i \in {j \in 1..Len(song_index) : IsMatched(j)}}

\* C8 witness: one hit below 100 from the token-sort score alone, while a key
\* of the index stays below the threshold and is not returned.
C8_Witness ==
    /\ Searched
    /\ \E n \in 1..Len(results) :
          \E song \in RangeOf(results[n].matched_songs) :
              ScoreLess(results[n].match_scores[song], Hundred)
    /\ \E i \in 1..Len(song_index) : ~IsMatched(i)

\* The matches of the n-th result entry as they were met, before sorting.
RawMatches(n) == ClusterMatches(query, song_index, threshold)[n].matched_songs

FirstSeen(raw, song) == CHOOSE k \in 1..Len(raw) :
    raw[k][1] = song /\ \A j \in 1..(k - 1) : raw[j][1] # song

\* C9: in every result entry matched_songs has no name twice, is sorted by
\* score, highest first, with equal scores in first-seen order, and
\* match_scores gives each name the highest score seen for it in the cluster.
C9_HitsSortedAndUnique ==
    Searched =>
        \A n \in 1..Len(results) :
            LET hits   == results[n].matched_songs
                scores == results[n].match_scores
                raw    == RawMatches(n)
            IN  /\ \A a, b \in 1..Len(hits) : hits[a] = hits[b] => a = b
                /\ RangeOf(hits) = {raw[k][1] : k \in 1..Len(raw)}
                /\ DOMAIN scores = RangeOf(hits)
                /\ \A a, b \in 1..Len(hits) :
                       a < b =>
                           /\ ScoreLeq(scores[hits[b]], scores[hits[a]])
                           /\ scores[hits[a]] = scores[hits[b]]
                                  => FirstSeen(raw, hits[a]) < FirstSeen(raw, hits[b])
                /\ \A k \in 1..Len(raw) : ScoreLeq(raw[k][2], scores[raw[k][1]])
                /\ \A song \in RangeOf(hits) :
                       \E k \in 1..Len(raw) : raw[k] = <<song, scores[song]>>

\* C9 witness: an entry whose matches have two different scores and hold a
\* name twice.
C9_Witness ==
    /\ Searched
    /\ \E n \in 1..Len(results) :
          LET raw == RawMatches(n) IN
          /\ Len(raw) > Len(results[n].matched_songs)
          /\ \E a, b \in 1..Len(raw) : ScoreLess(raw[a][2], raw[b][2])

\* C10: every name listed as a hit of a result entry (in matched_songs,
\* match_scores and song_variants) is one of the as-written songs of that
\* entry's all_songs.
C10_HitsAreSongsOfCluster ==
    Searched =>
        \A n \in 1..Len(results) :
            /\ RangeOf(results[n].matched_songs) \subseteq RangeOf(results[n].all_songs)
            /\ DOMAIN results[n].match_scores \subseteq RangeOf(results[n].all_songs)
            /\ DOMAIN results[n].song_variants \subseteq RangeOf(results[n].all_songs)

(***************************************************************************)
(* Properties of the contributor lookup                                    *)
(***************************************************************************)

\* The DataFrame of the worksheet a cluster was read from.
SheetDf(sheet_name) ==
    worksheets[CHOOSE i \in 1..Len(worksheets) : worksheets[i].name = sheet_name].df

\* str(cell).strip() of a column-0 cell, "" for an empty one.
ContributorCell(df, row) == IF isna(df[row][0]) THEN <<>> ELSE Strip(df[row][0])

\* The rows of a cluster column that hold a matching song.
SongRows(df, col_idx) ==
    {r \in RowIdxs : r >= 2 /\ ~isna(df[r][col_idx]) /\ Strip(df[r][col_idx]) # <<>>}

\* C11: in every indexed cluster the contributor lookup gives, for the seed
\* track, the name parsed from row 2 and, for a matching song, the column-0
\* value of the row the song is written in.
C11_ContributorOfOwnRow ==
    phase = "indexed" =>
        \A i \in 1..Len(song_index) : \A k \in 1..Len(song_index[i].clusters) :
            LET cl == song_index[i].clusters[k]
                df == SheetDf(cl.worksheet)
            IN  /\ cl.contributors[cl.seed_track] = SeedContributor(df, cl.col_idx)
                /\ \A r \in SongRows(df, cl.col_idx) :
                       cl.contributors[df[r][cl.col_idx]] = ContributorCell(df, r)

(***************************************************************************)
(* Properties of get_song_connections                                      *)
(***************************************************************************)

\* The clusters of the workbook: (sheet, column) with a seed cell.
WorkbookClusters ==
    {cl \in (1..Len(worksheets)) \X (ColIdxs \ {0}) :
        ~SkipsColumn(worksheets[cl[1]].df, cl[2])}

\* The songs written in a cluster's column: the seed and the matching songs.
SongsOfCluster(cl) ==
    LET df == worksheets[cl[1]].df
    IN  {Strip(df[0][cl[2]])} \cup {df[r][cl[2]] : r \in SongRows(df, cl[2])}

RoundDisplayOf(cl) == <<worksheets[cl[1]].name, "Woche", cl[2]>>

\* The cluster holds a song whose key is the key of the selected song.
HoldsSelected(cl) ==
    \E s \in SongsOfCluster(cl) :
        normalize_song_name(s) = normalize_song_name(conn_song)

ConnectionsOf(cl) ==
    {k \in 1..Len(connections) : connections[k].round_display = RoundDisplayOf(cl)}

\* C12: get_song_connections returns every cluster that holds a song with the
\* key of the selected song, each exactly once, and no other cluster.
C12_EachClusterOnce ==
    (phase = "indexed" /\ conn_song # None) =>
        /\ \A cl \in WorkbookClusters :
               HoldsSelected(cl) => Cardinality(ConnectionsOf(cl)) = 1
        /\ \A k \in 1..Len(connections) :
               \E cl \in WorkbookClusters : HoldsSelected(cl) /\ k \in ConnectionsOf(cl)

(***************************************************************************)
(* Properties of get_top_songs                                             *)
(***************************************************************************)

\* get_top_songs has been called.
TopCalled == phase = "indexed" /\ top_limit > 0

\* The index entry has a display name in artist-song format.
Qualifies(i) == Contains(song_index[i].variants[1], ArtistSongSeparator)

Returned(i) ==
    \E k \in 1..Len(top_songs) : top_songs[k].normalized = song_index[i].normalized

\* C13: get_top_songs returns at most limit entries in non-increasing order of
\* count, each an index entry shown by its first variant, which contains
\* " - "; no qualifying entry with a higher count than a returned one is left out.
C13_TopSongs ==
    TopCalled =>
        /\ Len(top_songs) <= top_limit
        /\ \A k \in 1..(Len(top_songs) - 1) : top_songs[k].count >= top_songs[k + 1].count
        /\ \A k \in 1..Len(top_songs) :
               /\ Contains(top_songs[k].name, ArtistSongSeparator)
               /\ \E i \in 1..Len(song_index) :
                      /\ top_songs[k].normalized = song_index[i].normalized
                      /\ top_songs[k].name = song_index[i].variants[1]
                      /\ top_songs[k].count = song_index[i].count
        /\ \A k, n \in 1..Len(top_songs) :
               top_songs[k].normalized = top_songs[n].normalized => k = n
        /\ \A i \in 1..Len(song_index) :
               (Qualifies(i) /\ ~Returned(i)) =>
                   \A k \in 1..Len(top_songs) : song_index[i].count <= top_songs[k].count

\* The limit cuts off a qualifying entry that comes first in the index but has
\* the lower count, and an entry without the separator is filtered out.
C13_Witness ==
    /\ TopCalled
    /\ top_limit = 1
    /\ Len(top_songs) = 1
    /\ \E i, j \in 1..Len(song_index) :
           /\ i < j
           /\ Qualifies(i) /\ Qualifies(j)
           /\ song_index[i].count < song_index[j].count
           /\ ~Returned(i) /\ Returned(j)

(***************************************************************************)
(* Properties of the output of normalize_song_name                         *)
(***************************************************************************)

\* normalize_song_name has run on a string.
Normalized == norm_pc # "start" /\ norm_in # None

\* The character at position i of s is a space.
SpaceAt(s, i) == i \in 1..Len(s) /\ s[i] = " "

\* Exactly one space stands before and exactly one after position i of s.
SingleSpaced(s, i) ==
    /\ SpaceAt(s, i - 1) /\ ~SpaceAt(s, i - 2)
    /\ SpaceAt(s, i + 1) /\ ~SpaceAt(s, i + 2)

\* C14: in the output of normalize_song_name every hyphen has exactly one
\* space before it and exactly one after it, whatever the input; a hyphen
\* between two words, spaced or not, comes out as " - ".
C14_HyphensSingleSpaced ==
    Normalized =>
        /\ \A i \in 1..Len(norm_out) : norm_out[i] = "-" => SingleSpaced(norm_out, i)
        /\ norm_in \in { <<"a", "-", "A">>, <<"a", " ", "-", "A">>, <<"a", "-", " ", "A">> }
               => norm_out = <<"a", " ", "-", " ", "a">>

\* The glyphs the normalizer is to replace by a plain form.
UpperCaseLetters == {"A", "B", "E", "EACUTE_UP"}
CombiningMarks == {"COMB_ACUTE"}
SingleQuoteVariants == {"LSQUO", "RSQUO", "BACKTICK", "ACUTE"}
DoubleQuoteVariants == {"LDQUO", "LOW9"}
DashVariants == {"ENDASH", "EMDASH", "MINUS"}

\* C15: the output of normalize_song_name holds no upper-case letter, no
\* combining mark, no curly, backtick or acute quote, no curly or low double
\* quote and no en dash, em dash or minus sign.
C15_NoGlyphVariants ==
    Normalized =>
        \A i \in 1..Len(norm_out) :
            norm_out[i] \notin UpperCaseLetters \cup CombiningMarks
                \cup SingleQuoteVariants \cup DoubleQuoteVariants \cup DashVariants

(***************************************************************************)
(* Order of the index lists                                                *)
(***************************************************************************)

\* Position of a worksheet in the workbook.
SheetPos(sheet_name) ==
    CHOOSE i \in 1..Len(worksheets) : worksheets[i].name = sheet_name

\* The cluster c is read no later than the cluster d: sheets in source order,
\* columns ascending.
ReadNoLater(c, d) ==
    \/ SheetPos(c.worksheet) < SheetPos(d.worksheet)
    \/ SheetPos(c.worksheet) = SheetPos(d.worksheet) /\ c.col_idx <= d.col_idx

\* The cluster references an entry must hold, in ingest order: for each sheet
\* and column in turn, one reference per occurrence of the key.
RECURSIVE ExpectedClusters(_, _, _)
ExpectedClusters(key, sh, col_idx) ==
    IF sh > Len(worksheets) THEN <<>>
    ELSE IF col_idx >= NumColumns(worksheets[sh].df) THEN ExpectedClusters(key, sh + 1, 1)
    ELSE LET n == Occurrences(key, worksheets[sh].name, worksheets[sh].df, col_idx)
         IN  [k \in 1..n |-> <<worksheets[sh].name, col_idx>>]
                 \o ExpectedClusters(key, sh, col_idx + 1)

\* C16: the index is a function of the workbook in which every list has one
\* fixed order: each key's cluster references are in ingest order (sheets in
\* source order, columns ascending, one reference per occurrence) and each
\* variant list is strictly ascending, so equal inputs give equal lists.
C16_IngestOrder ==
    phase = "indexed" =>
        \A i \in 1..Len(song_index) :
            LET e == song_index[i] IN
            /\ \A m, n \in 1..Len(e.clusters) :
                   m < n => ReadNoLater(e.clusters[m], e.clusters[n])
            /\ [k \in 1..Len(e.clusters) |-> <<e.clusters[k].worksheet, e.clusters[k].col_idx>>]
                   = ExpectedClusters(e.normalized, 1, 1)
            /\ \A m, n \in 1..Len(e.variants) :
                   m < n => StrLess(e.variants[m], e.variants[n])
            /\ e.count = Len(e.clusters)

\* C16 witness: a key with two spellings that occurs in two columns of one
\* sheet and in a later sheet.
C16_Witness ==
    /\ phase = "indexed"
    /\ \E i \in 1..Len(song_index) :
          LET e == song_index[i] IN
          /\ Len(e.variants) >= 2
          /\ Len(e.clusters) = 3
          /\ e.clusters[1].worksheet = e.clusters[2].worksheet
          /\ e.clusters[1].col_idx < e.clusters[2].col_idx
          /\ SheetPos(e.clusters[2].worksheet) < SheetPos(e.clusters[3].worksheet)

(***************************************************************************)
(* The readers of the index                                                *)
(***************************************************************************)

NoViewServed ==
    /\ query = None /\ results = <<>>
    /\ conn_song = None /\ connections = <<>>
    /\ top_limit = 0 /\ top_songs = <<>>

\* C18: when the load or the build raises, the run shows the error and
\* serves no view; the index the views read is always the index of the whole
\* file, never that of a part of its sheets or columns.
C18_FailFast ==
    /\ main_pc \in {"raised", "returned"} => (phase # "indexed" /\ NoViewServed)
    /\ main_pc = "returned" => error_shown
    /\ ~NoViewServed => phase = "indexed"
    /\ phase = "indexed" =>
          /\ main_pc = "serving"
          /\ ~error_shown
          /\ worksheets = source
          /\ song_index = build_song_index(source)

\* C18 witness: the build raised after it had indexed the first sheet and
\* before the second, which holds a song; the error is shown.
C18_Witness ==
    /\ main_pc = "returned"
    /\ error_shown
    /\ frame.sh = 2
    /\ frame.index # <<>>
    /\ IndexResult(frame.index) # build_song_index(source)

(***************************************************************************)
(* The threshold handed to the matcher                                     *)
(***************************************************************************)

\* The last search_songs call reached process.extract (it got past the early
\* return for an empty query).
MatcherRan == Searched

\* score_cutoff of that process.extract call: fuzzy_threshold as passed in.
MatcherCutoff == threshold

SameMatch(local, db) ==
    /\ db.round_display = local.round_display
    /\ RangeOf(db.matched_songs) = RangeOf(local.matched_songs)
    /\ \A song \in RangeOf(local.matched_songs) :
           AsScore(db.match_scores[song]) = local.match_scores[song]

\* C20: for a query that is not blank, database-mode search returns the
\* clusters of local-mode search, each with the same hits and the same scores.
C20_DbEqualsLocal ==
    (Searched /\ Strip(query) # <<>>) =>
        /\ \A i \in 1..Len(results) :
               \E j \in 1..Len(db_results) : SameMatch(results[i], db_results[j])
        /\ \A j \in 1..Len(db_results) :
               \E i \in 1..Len(results) : SameMatch(results[i], db_results[j])

(***************************************************************************)
(* db.supabase_request and the query functions built on it (src/db.py)     *)
(***************************************************************************)

\* The query functions, and "direct" for a caller that passes its own method.
DbFunctions ==
    {"search_songs_db", "get_cluster_songs", "get_song_connections_db",
     "get_top_songs_db", "get_likes_db", "add_like_db"}

\* The method a query function passes to supabase_request.
MethodOf(fn) == IF fn = "get_cluster_songs" THEN "GET" ELSE "POST"

\* The methods a direct caller may pass; "PUT" has no branch.
Methods == {"GET", "POST", "DELETE", "PUT"}

\* The responses of the server: a status and whether response.text is empty.
Responses == [status : {200, 404, 500}, text : {"json", ""}]

\* A plausible slip: only server errors count as failures.
IsErrorStatusServerOnly(status) == status >= 500

\* response.status_code >= 400
IsErrorStatus(status) == status >= 400

\* What a query function returns for the result of its request.
FnReturn(fn, result) ==
    CASE fn = "direct" -> result
      [] fn = "search_songs_db" ->
            IF result = "None" THEN "[]" ELSE IF result = "[]" THEN "[]" ELSE "clusters"
      [] fn = "get_cluster_songs" ->
            IF result = "None" THEN "None" ELSE "songs and contributors"
      [] fn = "get_song_connections_db" ->
            IF result = "None" THEN "[]" ELSE IF result = "[]" THEN "[]" ELSE "connections"
      [] fn = "get_top_songs_db" ->
            IF result = "None" THEN "[]" ELSE IF result = "[]" THEN "[]" ELSE "top songs"
      [] fn = "get_likes_db" ->
            IF result = "None" THEN "{}" ELSE IF result = "[]" THEN "{}" ELSE "likes"
      [] fn = "add_like_db" ->
            IF result = "None" THEN "0" ELSE "count"

InitRequest ==
    /\ CoreIdle
    /\ copies = <<>> /\ push = <<>> /\ retry = <<>> /\ nav = <<>>
    /\ pager = <<>> /\ likes = <<>> /\ validation = <<>>
    /\ \E fn \in DbFunctions \cup {"direct"}, method \in Methods, creds \in BOOLEAN :
          /\ fn # "direct" => method = MethodOf(fn)
          /\ req = [fn |-> fn, method |-> method, creds |-> creds,
                    pc |-> "credentials", attempts |-> 0,
                    response |-> [status |-> 0, text |-> ""], raised |-> FALSE,
                    error_shown |-> FALSE, result |-> "unset", fn_result |-> "unset"]

\* if not url or not key: return None
CheckCredentials ==
    /\ req.pc = "credentials"
    /\ req' = IF req.creds THEN [req EXCEPT !.pc = "dispatch"]
              ELSE [req EXCEPT !.pc = "returned", !.result = "None"]
    /\ UNCHANGED all_but_req

\* the if/elif chain on method; else: return None
Dispatch ==
    /\ req.pc = "dispatch"
    /\ req' = IF req.method \in {"GET", "POST", "DELETE"}
              THEN [req EXCEPT !.pc = "sending"]
              ELSE [req EXCEPT !.pc = "returned", !.result = "None"]
    /\ UNCHANGED all_but_req

\* requests.get / post / delete returns a response
HttpResponds ==
    /\ req.pc = "sending"
    /\ \E r \in Responses :
          req' = [req EXCEPT !.pc = "responded", !.attempts = @ + 1, !.response = r]
    /\ UNCHANGED all_but_req

\* requests.get / post / delete raises a RequestException:
\* st.error(...); return None
HttpRaises ==
    /\ req.pc = "sending"
    /\ req' = [req EXCEPT !.pc = "returned", !.attempts = @ + 1, !.raised = TRUE,
                           !.error_shown = TRUE, !.result = "None"]
    /\ UNCHANGED all_but_req

\* the status test, then response.json() if response.text else []
HandleResponse ==
    /\ req.pc = "responded"
    /\ req' = IF IsErrorStatus(req.response.status)
              THEN [req EXCEPT !.pc = "returned", !.error_shown = TRUE, !.result = "None"]
              ELSE [req EXCEPT !.pc = "returned",
                               !.result = IF req.response.text = "" THEN "[]" ELSE "json"]
    /\ UNCHANGED all_but_req

\* the query function goes on with the result of supabase_request
QueryReturns ==
    /\ req.pc = "returned"
    /\ req' = [req EXCEPT !.pc = "done", !.fn_result = FnReturn(req.fn, req.result)]
    /\ UNCHANGED all_but_req

NextRequest ==
    \/ CheckCredentials
    \/ Dispatch
    \/ HttpResponds
    \/ HttpRaises
    \/ HandleResponse
    \/ QueryReturns

SpecRequest == InitRequest /\ [][NextRequest]_vars

\* The call met one of the four failure cases.
RequestFailed ==
    \/ ~req.creds
    \/ req.method \notin {"GET", "POST", "DELETE"}
    \/ req.raised
    \/ req.attempts > 0 /\ ~req.raised /\ req.response.status >= 400

\* C21: a call of supabase_request makes at most one HTTP attempt; it returns
\* None without credentials, for an unknown method, for a status of 400 or
\* above and when the request raises; the query function then returns its
\* empty value ([], {}, None or 0).
C21_OneAttemptNoneOnFailure ==
    /\ req.attempts <= 1
    /\ (~req.creds \/ req.method \notin {"GET", "POST", "DELETE"}) => req.attempts = 0
    /\ req.pc \in {"returned", "done"} =>
          (RequestFailed <=> req.result = "None")
    /\ (req.pc = "done" /\ RequestFailed) =>
          /\ req.fn # "direct" => req.fn_result \in {"[]", "{}", "0", "None"}
          /\ req.fn = "direct" => req.fn_result = "None"

\* C21 witness: add_like_db got a 404 after one attempt and returned 0.
C21_Witness ==
    /\ req.pc = "done"
    /\ req.fn = "add_like_db"
    /\ req.attempts = 1
    /\ req.response.status = 404
    /\ req.result = "None"
    /\ req.fn_result = "0"

(***************************************************************************)
(* The copies of normalize_song_name in the command-line scripts           *)
(***************************************************************************)

\* normalize_song_name with the three character classes of a copy.
NormalizeWith(song, single, double, dashes) ==
    IF song = None \/ song = <<>> THEN <<>>
    ELSE LET lowered == [i \in 1..Len(song) |-> Lower(song[i])]
             nfd     == StripMarks(FlatMap(NFD, lowered))
             quote1  == [i \in 1..Len(nfd) |->
                            IF nfd[i] \in single THEN "APOS" ELSE nfd[i]]
             quote2  == [i \in 1..Len(quote1) |->
                            IF quote1[i] \in double THEN "DQUOTE" ELSE quote1[i]]
             dashed  == [i \in 1..Len(quote2) |->
                            IF quote2[i] \in dashes THEN "-" ELSE quote2[i]]
             spaced  == CollapseSpaces(dashed, 1)
             hyphens == HyphenSpacing(spaced, 1)
         IN  Strip(hyphens)

\* find_duplicates.py: the classes hold the ASCII characters only.
find_duplicates_normalize_song_name(song) ==
    NormalizeWith(song, {"APOS", "BACKTICK"}, {"DQUOTE"}, {"-"})

\* push_to_supabase.py: acute accent, double low-9 quote, en dash, em dash, minus.
push_to_supabase_normalize_song_name(song) ==
    NormalizeWith(song, {"APOS", "ACUTE", "BACKTICK"}, {"DQUOTE", "LOW9_DOUBLE"},
                  {"ENDASH", "EMDASH", "MINUS"})

\* push_simple.py: the same classes as push_to_supabase.py.
push_simple_normalize_song_name(song) ==
    NormalizeWith(song, {"APOS", "ACUTE", "BACKTICK"}, {"DQUOTE", "LOW9_DOUBLE"},
                  {"ENDASH", "EMDASH", "MINUS"})

\* The song names given to the four functions.
CopyAlphabet ==
    {"a", "A", " ", "-", "EACUTE", "BACKTICK", "ACUTE", "LOW9", "LOW9_DOUBLE", "ENDASH"}

MaxCopyLen == 2

InitCopies ==
    /\ CoreIdle
    /\ req = <<>> /\ push = <<>> /\ retry = <<>> /\ nav = <<>>
    /\ pager = <<>> /\ likes = <<>> /\ validation = <<>>
    /\ \E song \in Strings(CopyAlphabet, 0, MaxCopyLen) :
          copies = [song |-> song, pc |-> "start", main |-> None,
                    find_duplicates |-> None, push_to_supabase |-> None,
                    push_simple |-> None]

\* The same cell text goes through the app, the duplicate report and both
\* push scripts.
NormalizeCopies ==
    /\ copies # <<>>
    /\ copies.pc = "start"
    /\ copies' = [copies EXCEPT
          !.pc = "done",
          !.main = normalize_song_name(copies.song),
          !.find_duplicates = find_duplicates_normalize_song_name(copies.song),
          !.push_to_supabase = push_to_supabase_normalize_song_name(copies.song),
          !.push_simple = push_simple_normalize_song_name(copies.song)]
    /\ UNCHANGED all_but_copies

NextCopies == NormalizeCopies

SpecCopies == InitCopies /\ [][NextCopies]_vars

\* C22: the three copies of normalize_song_name return the key that
\* main.normalize_song_name returns, for every song name.
C22_CopiesAgree ==
    copies.pc = "done" =>
        /\ copies.find_duplicates = copies.main
        /\ copies.push_to_supabase = copies.main
        /\ copies.push_simple = copies.main

(***************************************************************************)
(* push_to_supabase.main                                                   *)
(***************************************************************************)

\* What validate_excel_data finds: no issue, issues, or a file pandas cannot open.
Workbooks == {"clean", "issues", "unloadable"}

\* validation['success']
ValidationSuccess(workbook) == workbook = "clean"

\* A plausible slip: the gate after validation lets every run through.
PushAllowedAlways(success, force) == TRUE

\* not (not validation['success'] and not args.force)
PushAllowed(success, force) == success \/ force

\* The steps that reach the database.
DatabaseCalls == {"connect", "clear", "insert", "migrate_likes"}

InitPush ==
    /\ CoreIdle
    /\ req = <<>> /\ copies = <<>> /\ retry = <<>> /\ nav = <<>>
    /\ pager = <<>> /\ likes = <<>> /\ validation = <<>>
    /\ \E validate_only \in BOOLEAN, dry_run \in BOOLEAN, migrate \in BOOLEAN,
          force \in BOOLEAN, file \in {"none", "missing", "found"},
          workbook \in Workbooks, creds \in BOOLEAN :
          push = [validate_only |-> validate_only, dry_run |-> dry_run,
                  migrate_likes |-> migrate, force |-> force, file |-> file,
                  workbook |-> workbook, creds |-> creds,
                  pc |-> "find_file", steps |-> <<>>, exit |-> "running"]

\* args.file or find_data_file(); sys.exit(1) without a file
FindFile ==
    /\ push.pc = "find_file"
    /\ push' = IF push.file = "found" THEN [push EXCEPT !.pc = "validate"]
               ELSE [push EXCEPT !.pc = "exited", !.exit = "1"]
    /\ UNCHANGED all_but_push

\* Step 1: validation = validate_excel_data(file_path), then the two exits
PushValidate ==
    /\ push.pc = "validate"
    /\ LET success == ValidationSuccess(push.workbook)
           steps == Append(push.steps, "validate") IN
       push' = IF push.validate_only
               THEN [push EXCEPT !.steps = steps, !.pc = "exited",
                                 !.exit = IF success THEN "0" ELSE "1"]
               ELSE IF ~PushAllowed(success, push.force)
               THEN [push EXCEPT !.steps = steps, !.pc = "exited", !.exit = "1"]
               ELSE [push EXCEPT !.steps = steps, !.pc = "transform"]
    /\ UNCHANGED all_but_push

\* Step 2: data = transform_excel_data(file_path); pd.ExcelFile raises on a
\* file it cannot open; then the dry-run exit
PushTransform ==
    /\ push.pc = "transform"
    /\ LET steps == Append(push.steps, "transform") IN
       push' = IF push.workbook = "unloadable"
               THEN [push EXCEPT !.steps = steps, !.pc = "exited", !.exit = "raised"]
               ELSE IF push.dry_run
               THEN [push EXCEPT !.steps = steps, !.pc = "exited", !.exit = "0"]
               ELSE [push EXCEPT !.steps = steps, !.pc = "connect"]
    /\ UNCHANGED all_but_push

\* Step 3: connect_supabase(); ValueError without URL or key
PushConnect ==
    /\ push.pc = "connect"
    /\ push' = IF push.creds
               THEN [push EXCEPT !.steps = Append(@, "connect"), !.pc = "clear"]
               ELSE [push EXCEPT !.pc = "exited", !.exit = "1"]
    /\ UNCHANGED all_but_push

\* push_data: clear_database(supabase)
PushClear ==
    /\ push.pc = "clear"
    /\ push' = [push EXCEPT !.steps = Append(@, "clear"), !.pc = "insert"]
    /\ UNCHANGED all_but_push

\* push_data: the inserts of runden, clusters and songs
PushInsert ==
    /\ push.pc = "insert"
    /\ push' = [push EXCEPT !.steps = Append(@, "insert"),
                            !.pc = IF push.migrate_likes THEN "migrate" ELSE "exited",
                            !.exit = IF push.migrate_likes THEN "running" ELSE "0"]
    /\ UNCHANGED all_but_push

\* Step 4: migrate_likes(supabase)
PushMigrateLikes ==
    /\ push.pc = "migrate"
    /\ push' = [push EXCEPT !.steps = Append(@, "migrate_likes"),
                            !.pc = "exited", !.exit = "0"]
    /\ UNCHANGED all_but_push

NextPush ==
    \/ FindFile
    \/ PushValidate
    \/ PushTransform
    \/ PushConnect
    \/ PushClear
    \/ PushInsert
    \/ PushMigrateLikes

SpecPush == InitPush /\ [][NextPush]_vars

\* The run has made a database call.
TouchedDatabase == \E i \in 1..Len(push.steps) : push.steps[i] \in DatabaseCalls

\* C23: the run reaches the database only without --validate-only and
\* --dry-run and with a successful validation or --force; validation is the
\* first step of every run that transforms or pushes.
C23_PushGate ==
    /\ TouchedDatabase =>
          /\ ~push.validate_only
          /\ ~push.dry_run
          /\ ValidationSuccess(push.workbook) \/ push.force
    /\ \A i \in 1..Len(push.steps) :
          push.steps[i] \in DatabaseCalls \cup {"transform"} =>
              /\ i > 1
              /\ push.steps[1] = "validate"

\* C23 witness: a forced push of a workbook with issues cleared and filled the
\* database and migrated the likes.
C23_Witness ==
    /\ push.pc = "exited"
    /\ push.force
    /\ push.workbook = "issues"
    /\ push.steps = <<"validate", "transform", "connect", "clear", "insert", "migrate_likes">>

(***************************************************************************)
(* push_simple.supabase_request                                            *)
(***************************************************************************)

\* The largest value of the parameter retries (its default is 3).
MaxRetries == 3

\* The bodies of a response: empty, JSON, or text that is not JSON.
SimpleResponses == [status : {200, 400, 503}, text : {"", "json", "not json"}]

\* A plausible slip: the same pause after every failed attempt.
RetryWaitFixed(attempt) == 2

\* wait = (attempt + 1) * 2, attempt counted from 0
RetryWait(attempt) == (attempt + 1) * 2

InitRetry ==
    /\ CoreIdle
    /\ req = <<>> /\ copies = <<>> /\ push = <<>> /\ nav = <<>>
    /\ pager = <<>> /\ likes = <<>> /\ validation = <<>>
    /\ \E retries \in 0..MaxRetries, method \in Methods :
          retry = [retries |-> retries, method |-> method, attempt |-> 0,
                   outcomes |-> <<>>, waits |-> <<>>, pc |-> "loop",
                   result |-> "unset"]

\* for attempt in range(retries): the next iteration, or the end of the loop
\* (the function then returns None implicitly)
RetryLoop ==
    /\ retry.pc = "loop"
    /\ retry' = IF retry.attempt < retry.retries
                THEN [retry EXCEPT !.pc = "try"]
                ELSE [retry EXCEPT !.pc = "returned", !.result = "None"]
    /\ UNCHANGED all_but_retry

\* else: raise ValueError: not among the caught exceptions, leaves the function
RetryUnknownMethod ==
    /\ retry.pc = "try"
    /\ retry.method \notin {"GET", "POST", "DELETE"}
    /\ retry' = [retry EXCEPT !.pc = "raised"]
    /\ UNCHANGED all_but_retry

\* the request returns a response: None for a status of 400 or above, else
\* the JSON, [] for an empty body, or the text if it is not JSON
RetryResponds ==
    /\ retry.pc = "try"
    /\ retry.method \in {"GET", "POST", "DELETE"}
    /\ \E r \in SimpleResponses :
          retry' = IF r.status >= 400
                   THEN [retry EXCEPT !.outcomes = Append(@, "http error"),
                                      !.pc = "returned", !.result = "None"]
                   ELSE [retry EXCEPT !.outcomes = Append(@, "ok"),
                                      !.pc = "returned",
                                      !.result = IF r.text = "" THEN "[]" ELSE r.text]
    /\ UNCHANGED all_but_retry

\* the request raises RequestException or ConnectionError: sleep and go on,
\* or return None after the last attempt
RetryRaises ==
    /\ retry.pc = "try"
    /\ retry.method \in {"GET", "POST", "DELETE"}
    /\ retry' = IF retry.attempt < retry.retries - 1
                THEN [retry EXCEPT !.outcomes = Append(@, "exception"),
                                   !.waits = Append(@, RetryWait(retry.attempt)),
                                   !.attempt = @ + 1,
                                   !.pc = "loop"]
                ELSE [retry EXCEPT !.outcomes = Append(@, "exception"),
                                   !.pc = "returned", !.result = "None"]
    /\ UNCHANGED all_but_retry

NextRetry ==
    \/ RetryLoop
    \/ RetryUnknownMethod
    \/ RetryResponds
    \/ RetryRaises

SpecRetry == InitRetry /\ [][NextRetry]_vars

\* C24: a call makes at most retries HTTP attempts; every attempt before the
\* last one made ended in an exception; the pause after failed attempt k is
\* 2*k seconds; after the last failed attempt the call returns None; a
\* response, good or with a status of 400 or above, ends the call at once,
\* the latter with None.
C24_BoundedRetry ==
    LET n == Len(retry.outcomes) IN
    /\ n <= retry.retries
    /\ \A k \in 1..(n - 1) : retry.outcomes[k] = "exception"
    /\ \A k \in 1..Len(retry.waits) : retry.waits[k] = 2 * k
    /\ Len(retry.waits) = retry.attempt
    /\ (n > 0 /\ retry.outcomes[n] = "exception") =>
          \/ n < retry.retries /\ Len(retry.waits) = n /\ retry.pc \in {"loop", "try"}
          \/ n = retry.retries /\ Len(retry.waits) = n - 1
                /\ retry.pc = "returned" /\ retry.result = "None"
    /\ (n > 0 /\ retry.outcomes[n] # "exception") =>
          /\ retry.pc = "returned"
          /\ Len(retry.waits) = n - 1
          /\ retry.outcomes[n] = "http error" => retry.result = "None"
          /\ retry.outcomes[n] = "ok" => retry.result # "None"

\* C24 witness: three attempts with retries = 3, pauses of 2 and 4 seconds,
\* then None.
C24_Witness ==
    /\ retry.retries = 3
    /\ retry.outcomes = <<"exception", "exception", "exception">>
    /\ retry.waits = <<2, 4>>
    /\ retry.pc = "returned"
    /\ retry.result = "None"

(***************************************************************************)
(* Navigation: navigate_to_song, navigate_to_contributor, navigate_back    *)
(***************************************************************************)

\* Python's truth value of a session entry: None and "" are false.
Truthy(x) == x # None /\ x # <<>>

\* The names the views pass to the navigation functions; a cluster with a
\* blank seed has the seed track "".
NavSongs == {<<"s">>, <<"t">>, <<>>}
NavContributors == {<<"c">>}

\* The search queries stored before drilling into a result.
NavQueries == {<<"q">>}

\* The longest history and the number of clicks followed.
MaxHistory == 3
MaxNavSteps == 5

\* The entry pushed for the view on display, if any.
HistoryPush(ss) ==
    IF Truthy(ss.selected_song)
    THEN Append(ss.navigation_history,
                [type |-> "song", value |-> ss.selected_song])
    ELSE IF Truthy(ss.selected_contributor)
    THEN Append(ss.navigation_history,
                [type |-> "contributor", value |-> ss.selected_contributor])
    ELSE ss.navigation_history

\* A plausible slip: the contributor stays selected next to the song.
navigate_to_song_keeping_contributor(ss, song_name) ==
    [ss EXCEPT !.navigation_history = HistoryPush(ss),
               !.selected_song = song_name,
               !.page_connections = 1]

navigate_to_song(ss, song_name) ==
    [ss EXCEPT !.navigation_history = HistoryPush(ss),
               !.selected_song = song_name,
               !.selected_contributor = None,
               !.page_connections = 1]

navigate_to_contributor(ss, contributor_name) ==
    [ss EXCEPT !.navigation_history = HistoryPush(ss),
               !.selected_contributor = contributor_name,
               !.selected_song = None,
               !.page_contributor = 1]

\* A plausible slip: the entry is read but left on the stack.
navigate_back_without_pop(ss) ==
    LET h == ss.navigation_history IN
    IF h # <<>>
    THEN LET prev == h[Len(h)] IN
         IF prev.type = "song"
         THEN [ss EXCEPT !.selected_song = prev.value, !.selected_contributor = None]
         ELSE [ss EXCEPT !.selected_contributor = prev.value, !.selected_song = None]
    ELSE [ss EXCEPT !.selected_song = None, !.selected_contributor = None]

navigate_back(ss) ==
    LET h == ss.navigation_history IN
    IF h # <<>>
    THEN LET prev == h[Len(h)]
             rest == SubSeq(h, 1, Len(h) - 1) IN
         IF prev.type = "song"
         THEN [ss EXCEPT !.navigation_history = rest,
                         !.selected_song = prev.value,
                         !.selected_contributor = None]
         ELSE [ss EXCEPT !.navigation_history = rest,
                         !.selected_contributor = prev.value,
                         !.selected_song = None]
    ELSE [ss EXCEPT !.selected_song = None,
                    !.selected_contributor = None,
                    !.selected_suggestion =
                        IF ss.last_search_query # <<>> THEN ss.last_search_query ELSE @]

\* A song or contributor view is on display.
Displayed(ss) == Truthy(ss.selected_song) \/ Truthy(ss.selected_contributor)

\* The part of the session a navigation step is compared on.
Snapshot(ss) ==
    [selected_song |-> ss.selected_song,
     selected_contributor |-> ss.selected_contributor,
     selected_suggestion |-> ss.selected_suggestion,
     navigation_history |-> ss.navigation_history]

\* The names on display in ss, added to those seen before.
Seen(ss, seen) ==
    seen \cup (IF Truthy(ss.selected_song) THEN {ss.selected_song} ELSE {})
         \cup (IF Truthy(ss.selected_contributor) THEN {ss.selected_contributor} ELSE {})

\* The session state main() sets up, and the bookkeeping of the clicks.
InitNav ==
    /\ CoreIdle
    /\ req = <<>> /\ copies = <<>> /\ push = <<>> /\ retry = <<>>
    /\ pager = <<>> /\ likes = <<>> /\ validation = <<>>
    /\ nav = [ss |-> [selected_song |-> None, selected_contributor |-> None,
                      selected_suggestion |-> None, navigation_history |-> <<>>,
                      last_search_query |-> <<>>,
                      page_connections |-> 1, page_contributor |-> 1],
              last |-> "init", before |-> [selected_song |-> None,
                      selected_contributor |-> None, selected_suggestion |-> None,
                      navigation_history |-> <<>>],
              pushes |-> 0, pops |-> 0, steps |-> 0, displayed |-> {}]

\* A click on a song: in a view, or on a search result (which stores the
\* query first).
NavigateToSong ==
    /\ nav.steps < MaxNavSteps
    /\ Len(nav.ss.navigation_history) < MaxHistory
    /\ \E song_name \in NavSongs, q \in NavQueries \cup {None} :
          /\ Displayed(nav.ss) => q = None
          /\ LET ss0 == IF q = None THEN nav.ss
                        ELSE [nav.ss EXCEPT !.last_search_query = q]
                 ss1 == navigate_to_song(ss0, song_name) IN
             nav' = [nav EXCEPT
                 !.ss = ss1,
                 !.last = IF Displayed(nav.ss) THEN "navigate from view"
                          ELSE "navigate from search",
                 !.before = Snapshot(nav.ss),
                 !.pushes = IF Displayed(nav.ss) THEN @ + 1 ELSE @,
                 !.steps = @ + 1,
                 !.displayed = Seen(nav.ss, @)]
    /\ UNCHANGED all_but_nav

\* A click on a contributor: in a view, or on a search result.
NavigateToContributor ==
    /\ nav.steps < MaxNavSteps
    /\ Len(nav.ss.navigation_history) < MaxHistory
    /\ \E contributor_name \in NavContributors, q \in NavQueries \cup {None} :
          /\ Displayed(nav.ss) => q = None
          /\ LET ss0 == IF q = None THEN nav.ss
                        ELSE [nav.ss EXCEPT !.last_search_query = q]
                 ss1 == navigate_to_contributor(ss0, contributor_name) IN
             nav' = [nav EXCEPT
                 !.ss = ss1,
                 !.last = IF Displayed(nav.ss) THEN "navigate from view"
                          ELSE "navigate from search",
                 !.before = Snapshot(nav.ss),
                 !.pushes = IF Displayed(nav.ss) THEN @ + 1 ELSE @,
                 !.steps = @ + 1,
                 !.displayed = Seen(nav.ss, @)]
    /\ UNCHANGED all_but_nav

\* The back button of the song and contributor screens.
NavigateBack ==
    /\ nav.steps < MaxNavSteps
    /\ Displayed(nav.ss)
    /\ nav' = [nav EXCEPT
          !.ss = navigate_back(nav.ss),
          !.last = IF nav.ss.navigation_history = <<>> THEN "back to search"
                   ELSE IF nav.last = "navigate from view" THEN "back after navigate"
                   ELSE "back",
          !.before = IF nav.ss.navigation_history # <<>>
                        /\ nav.last = "navigate from view"
                     THEN @ ELSE Snapshot(nav.ss),
          !.pops = IF nav.ss.navigation_history # <<>> THEN @ + 1 ELSE @,
          !.steps = @ + 1,
          !.displayed = Seen(nav.ss, @)]
    /\ UNCHANGED all_but_nav

\* The search tab puts the suggestion into the input and clears it.
UseSuggestion ==
    /\ ~Displayed(nav.ss)
    /\ Truthy(nav.ss.selected_suggestion)
    /\ nav' = [nav EXCEPT !.ss.selected_suggestion = None, !.last = "search tab"]
    /\ UNCHANGED all_but_nav

NextNav ==
    \/ NavigateToSong
    \/ NavigateToContributor
    \/ NavigateBack
    \/ UseSuggestion

SpecNav == InitNav /\ [][NextNav]_vars

\* C25: navigate_back right after a navigation made from a song or
\* contributor view gives back the selected song, the selected contributor and
\* the history of before that navigation; with an empty history it clears both
\* selections and puts a stored search query into selected_suggestion.
C25_BackUndoesNavigate ==
    /\ nav.last = "back after navigate" =>
          /\ nav.ss.selected_song = nav.before.selected_song
          /\ nav.ss.selected_contributor = nav.before.selected_contributor
          /\ nav.ss.navigation_history = nav.before.navigation_history
    /\ nav.last = "back to search" =>
          /\ nav.ss.selected_song = None
          /\ nav.ss.selected_contributor = None
          /\ nav.ss.navigation_history = <<>>
          /\ nav.ss.last_search_query # <<>> =>
                nav.ss.selected_suggestion = nav.ss.last_search_query
          /\ nav.ss.last_search_query = <<>> =>
                nav.ss.selected_suggestion = nav.before.selected_suggestion

\* C25 witness: from the view of song s with one history entry a contributor
\* was opened and the back button brought s and the one entry back.
C25_Witness ==
    /\ nav.last = "back after navigate"
    /\ nav.ss.selected_song = <<"s">>
    /\ Len(nav.ss.navigation_history) = 1
    /\ nav.ss.navigation_history = nav.before.navigation_history

\* C25 witness of the second case: back with an empty history put the stored
\* query into the suggestion.
C25_WitnessSearch ==
    /\ nav.last = "back to search"
    /\ nav.ss.selected_suggestion = <<"q">>

\* C26: at most one of selected_song and selected_contributor is set; every
\* history entry is a song or contributor entry with a non-empty value that
\* was on display before; the history is as long as the navigations made
\* from a view minus the pops.
C26_NavigationInvariant ==
    /\ nav.ss.selected_song = None \/ nav.ss.selected_contributor = None
    /\ \A i \in 1..Len(nav.ss.navigation_history) :
          LET e == nav.ss.navigation_history[i] IN
          /\ e.type \in {"song", "contributor"}
          /\ e.value # None /\ e.value # <<>>
          /\ e.value \in nav.displayed
    /\ Len(nav.ss.navigation_history) = nav.pushes - nav.pops

\* C26 witness: three navigations from a view and one pop leave two entries,
\* a song and a contributor.
C26_Witness ==
    /\ nav.pushes = 3
    /\ nav.pops = 1
    /\ Len(nav.ss.navigation_history) = 2
    /\ \E i, j \in 1..2 :
          /\ nav.ss.navigation_history[i].type = "song"
          /\ nav.ss.navigation_history[j].type = "contributor"

(***************************************************************************)
(* Pagination: render_pagination and render_pagination_controls            *)
(***************************************************************************)

\* The longest item list and the largest page size.
MaxItems == 5
MaxPerPage == 3

\* The item list of length n: the items are told apart by their position.
ItemList(n) == [i \in 1..n |-> i]

MaxOf(a, b) == IF a >= b THEN a ELSE b
MinOf(a, b) == IF a <= b THEN a ELSE b

\* A plausible slip: the last, partly filled page is not counted.
TotalPagesFloor(total_items, items_per_page) ==
    MaxOf(1, total_items \div items_per_page)

\* max(1, (total_items + items_per_page - 1) // items_per_page)
TotalPages(total_items, items_per_page) ==
    MaxOf(1, (total_items + items_per_page - 1) \div items_per_page)

\* render_pagination with the stored page number: the returned tuple; the
\* stored page number becomes current_page.
render_pagination(items, stored_page, items_per_page) ==
    LET total_items  == Len(items)
        total_pages  == TotalPages(total_items, items_per_page)
        current_page == MinOf(stored_page, total_pages)
        start_idx    == (current_page - 1) * items_per_page
        end_idx      == MinOf(start_idx + items_per_page, total_items)
    IN  [paginated_items |-> SubSeq(items, start_idx + 1, end_idx),
         current_page |-> current_page,
         total_pages |-> total_pages,
         start_num |-> start_idx + 1,
         end_num |-> end_idx,
         total_items |-> total_items]

\* One paginated list: nothing shown yet, the page key not yet in the session.
InitPager ==
    /\ CoreIdle
    /\ req = <<>> /\ copies = <<>> /\ push = <<>> /\ retry = <<>>
    /\ nav = <<>> /\ likes = <<>> /\ validation = <<>>
    /\ \E n \in 0..MaxItems, items_per_page \in 1..MaxPerPage :
          pager = [items |-> ItemList(n), items_per_page |-> items_per_page,
                   has_key |-> FALSE, page |-> 0, pc |-> "run",
                   shown |-> render_pagination(<<>>, 1, items_per_page)]

\* A script run calls render_pagination and draws the controls.
RenderPagination ==
    /\ pager.pc = "run"
    /\ LET stored == IF pager.has_key THEN pager.page ELSE 1
           r == render_pagination(pager.items, stored, pager.items_per_page) IN
       pager' = [pager EXCEPT !.has_key = TRUE, !.page = r.current_page,
                              !.shown = r, !.pc = "shown"]
    /\ UNCHANGED all_but_pager

\* The previous button: drawn with more than one page, disabled on page 1.
ClickPrevious ==
    /\ pager.pc = "shown"
    /\ pager.shown.total_pages > 1
    /\ pager.shown.current_page # 1
    /\ pager' = [pager EXCEPT !.page = pager.shown.current_page - 1, !.pc = "run"]
    /\ UNCHANGED all_but_pager

\* The next button: drawn with more than one page, disabled on the last page.
ClickNext ==
    /\ pager.pc = "shown"
    /\ pager.shown.total_pages > 1
    /\ pager.shown.current_page # pager.shown.total_pages
    /\ pager' = [pager EXCEPT !.page = pager.shown.current_page + 1, !.pc = "run"]
    /\ UNCHANGED all_but_pager

\* Another selection or query: the list changes; the caller may set the page
\* back to 1.
ChangeItems ==
    /\ pager.pc = "shown"
    /\ \E n \in 0..MaxItems, reset \in BOOLEAN :
          /\ ItemList(n) # pager.items
          /\ pager' = [pager EXCEPT !.items = ItemList(n),
                                    !.page = IF reset THEN 1 ELSE @,
                                    !.pc = "run"]
    /\ UNCHANGED all_but_pager

NextPager ==
    \/ RenderPagination
    \/ ClickPrevious
    \/ ClickNext
    \/ ChangeItems

SpecPager == InitPager /\ [][NextPager]_vars

\* The smallest number of pages of the given size that hold n items.
CeilDiv(n, size) == CHOOSE k \in 0..n : k * size >= n /\ (k = 0 \/ (k - 1) * size < n)

\* The slices of pages 1..last one after the other.
RECURSIVE PagesUpTo(_, _, _)
PagesUpTo(items, items_per_page, last) ==
    IF last = 0 THEN <<>>
    ELSE PagesUpTo(items, items_per_page, last - 1)
         \o render_pagination(items, last, items_per_page).paginated_items

\* C27: after render_pagination, 1 <= current_page <= total_pages, total_pages
\* is max(1, ceil(len(items) / items_per_page)), the slice shown is that of
\* the current page, and the slices of pages 1..total_pages one after the
\* other are the item list.
C27_PagesPartitionItems ==
    pager.pc = "shown" =>
        /\ 1 <= pager.shown.current_page
        /\ pager.shown.current_page <= pager.shown.total_pages
        /\ pager.page = pager.shown.current_page
        /\ pager.shown.total_pages =
              MaxOf(1, CeilDiv(Len(pager.items), pager.items_per_page))
        /\ PagesUpTo(pager.items, pager.items_per_page, pager.shown.total_pages)
              = pager.items
        /\ \A p \in 1..pager.shown.total_pages :
              Len(render_pagination(pager.items, p, pager.items_per_page).paginated_items)
                  <= pager.items_per_page

\* C27 witness: page 3 of five items in pages of two was shown, the list
\* shrank to three items, and page 2 is shown with the last item.
C27_Witness ==
    /\ pager.pc = "shown"
    /\ pager.items = ItemList(3)
    /\ pager.items_per_page = 2
    /\ pager.shown.current_page = 2
    /\ pager.shown.total_pages = 2
    /\ pager.shown.paginated_items = <<3>>

(***************************************************************************)
(* Likes in local mode: load_likes, save_likes, add_like                   *)
(***************************************************************************)

\* The songs liked in one session.
LikeSongs == {<<"x">>, <<"y">>}

\* The values hash() may give a song name in one process; 7 and 10007 fall
\* into the same bucket.
HashValues == {7, 8, 10007}

\* The clock in milliseconds: it advances in steps of ClockStep up to MaxClock.
ClockStep == 250
MaxClock == 1000

\* The number of add_like calls followed.
MaxLikes == 3

\* The largest count in the likes file at the start.
MaxStoredLikes == 2

\* debounce_key = f"last_like_{hash(song_name) % 10000}"
DebounceKey(hash, song_name) == hash[song_name] % 10000

\* The likes dict without entries: every get(song, 0) gives 0.
NoLikes == [song \in LikeSongs |-> 0]

\* load_likes(): the content of a file that exists and can be read, {} for
\* a file that is missing or raises JSONDecodeError or IOError.
load_likes(file) ==
    IF file.state = "present" THEN file.counts ELSE NoLikes

\* save_likes(likes): the file is written, or an IOError/OSError leaves a
\* warning only.
save_likes(file, new_likes, written) ==
    IF written THEN [state |-> "present", counts |-> new_likes] ELSE file

\* What the store holds for a song (nothing when there is no file).
StoredCount(file, song) ==
    IF file.state = "missing" THEN 0 ELSE file.counts[song]

InitLikes ==
    /\ CoreIdle
    /\ req = <<>> /\ copies = <<>> /\ push = <<>> /\ retry = <<>>
    /\ nav = <<>> /\ pager = <<>> /\ validation = <<>>
    /\ \E state \in {"present", "missing", "unreadable"},
          counts \in [LikeSongs -> 0..MaxStoredLikes],
          hash \in [LikeSongs -> HashValues] :
          /\ state = "missing" => counts = NoLikes
          /\ likes = [file |-> [state |-> state, counts |-> counts],
                      hash |-> hash,
                      session |-> [k \in {h % 10000 : h \in HashValues} |-> -1],
                      now |-> 0,
                      accepted |-> [song \in LikeSongs |-> -1],
                      calls |-> 0,
                      last |-> [song |-> <<>>, suppressed |-> FALSE, returned |-> 0,
                                file_before |-> [state |-> state, counts |-> counts],
                                session_before |->
                                    [k \in {h % 10000 : h \in HashValues} |-> -1],
                                accepted_before |-> [song \in LikeSongs |-> -1],
                                now |-> 0]]

\* time.time() moves on.
ClockTick ==
    /\ likes.now + ClockStep <= MaxClock
    /\ likes' = [likes EXCEPT !.now = @ + ClockStep]
    /\ UNCHANGED all_but_likes

\* add_like(song_name) in local mode
AddLike ==
    /\ likes.calls < MaxLikes
    /\ \E song_name \in LikeSongs, written \in BOOLEAN :
          LET debounce_key == DebounceKey(likes.hash, song_name)
              debounced == /\ likes.session[debounce_key] # -1
                           /\ likes.now - likes.session[debounce_key] < 500
              loaded == load_likes(likes.file)
              new_likes == [loaded EXCEPT ![song_name] = @ + 1]
              last == [song |-> song_name, suppressed |-> debounced,
                       returned |-> IF debounced THEN loaded[song_name]
                                    ELSE new_likes[song_name],
                       file_before |-> likes.file,
                       session_before |-> likes.session,
                       accepted_before |-> likes.accepted,
                       now |-> likes.now]
          IN  /\ debounced => written
              /\ likes' = IF debounced
                          THEN [likes EXCEPT !.calls = @ + 1, !.last = last]
                          ELSE [likes EXCEPT
                                  !.calls = @ + 1,
                                  !.last = last,
                                  !.session[debounce_key] = likes.now,
                                  !.accepted[song_name] = likes.now,
                                  !.file = save_likes(likes.file, new_likes, written)]
    /\ UNCHANGED all_but_likes

NextLikes ==
    \/ ClockTick
    \/ AddLike

SpecLikes == InitLikes /\ [][NextLikes]_vars

\* The song of the last call had an accepted like less than 500 ms before it.
RecentSameSongLike ==
    /\ likes.last.accepted_before[likes.last.song] # -1
    /\ likes.last.now - likes.last.accepted_before[likes.last.song] < 500

\* C28: a call of add_like is suppressed exactly when the same song had an
\* accepted like less than 500 ms earlier in the session, and a suppressed
\* call changes neither the stored counts nor the recorded last-like times.
C28_DebouncePerSong ==
    likes.calls > 0 =>
        /\ likes.last.suppressed <=> RecentSameSongLike
        /\ likes.last.suppressed =>
              /\ likes.file = likes.last.file_before
              /\ likes.session = likes.last.session_before

\* C29: a call that is not suppressed raises the stored count of its song by
\* one, returns that count and leaves the other counts alone; no call makes a
\* stored count smaller.
C29_CountsOnlyGrow ==
    likes.calls > 0 =>
        /\ ~likes.last.suppressed =>
              /\ StoredCount(likes.file, likes.last.song)
                    = StoredCount(likes.last.file_before, likes.last.song) + 1
              /\ likes.last.returned = StoredCount(likes.file, likes.last.song)
              /\ \A other \in LikeSongs \ {likes.last.song} :
                    StoredCount(likes.file, other)
                        = StoredCount(likes.last.file_before, other)
        /\ \A song \in LikeSongs :
              StoredCount(likes.file, song) >= StoredCount(likes.last.file_before, song)

(***************************************************************************)
(* validate_data.validate_excel_data next to build_song_index              *)
(***************************************************************************)

\* matching_songs: df.iloc[2:, col_idx].dropna() without the blank strings
\* (the filter of build_song_index, written the same way).
MatchingSongs(df, col_idx) == ColumnData(df, col_idx, 2)

\* One pass of the column loop of validate_excel_data.
ValidateColumn(report, sheet_name, df, col_idx) ==
    LET seed_value == df[0][col_idx]
        matching_songs == MatchingSongs(df, col_idx)
    IN  IF isna(seed_value)
        THEN [report EXCEPT
                !.total_columns = @ + 1,
                !.columns_skipped = @ + 1,
                !.songs_skipped = @ + Len(matching_songs),
                !.issues = Append(@, [worksheet |-> sheet_name, col_idx |-> col_idx,
                                      type |-> "EMPTY_SEED",
                                      lost_songs |-> matching_songs])]
        ELSE [report EXCEPT
                !.total_columns = @ + 1,
                !.columns_ok = @ + 1,
                !.songs_indexed = @ + 1 + Len(matching_songs)]

RECURSIVE ValidateColumns(_, _, _, _)
ValidateColumns(report, sheet_name, df, col_idx) ==
    IF col_idx >= NumColumns(df) THEN report
    ELSE ValidateColumns(ValidateColumn(report, sheet_name, df, col_idx),
                         sheet_name, df, col_idx + 1)

RECURSIVE ValidateSheets(_, _, _)
ValidateSheets(report, sheets, i) ==
    IF i > Len(sheets) THEN report
    ELSE ValidateSheets(
             ValidateColumns([report EXCEPT !.total_worksheets = @ + 1],
                             sheets[i].name, sheets[i].df, 1),
             sheets, i + 1)

\* The dict validate_excel_data returns for a workbook pandas can open.
validate_excel_data(sheets) ==
    ValidateSheets([total_worksheets |-> 0, total_columns |-> 0, columns_ok |-> 0,
                    columns_skipped |-> 0, songs_indexed |-> 0, songs_skipped |-> 0,
                    issues |-> <<>>], sheets, 1)

\* build_song_index reads df.iloc[1, col_idx] of every column with a seed:
\* on a sheet of one row that is an IndexError.
IndexErrorIn(sheets) ==
    \E i \in 1..Len(sheets) :
        /\ NumRows(sheets[i].df) < 2
        /\ \E col_idx \in 1..(NumColumns(sheets[i].df) - 1) :
              ~SkipsColumn(sheets[i].df, col_idx)

\* The sheets of the workbooks validated: up to MaxValRows rows, column 0 for
\* the contributors and two cluster columns, no seed annotation.
MaxValRows == 3

ValCells == {<<"b">>, <<" ">>, None}

ValSheets ==
    UNION {
        {[r \in 0..(rows - 1) |-> [c \in 0..2 |->
              IF c = 0 \/ r = 1 THEN None ELSE g[<<r, c>>]]] :
            g \in [((0..(rows - 1)) \ {1}) \X {1, 2} -> ValCells]} :
        rows \in 1..MaxValRows}

\* A second sheet of one column: none, a row of seeds only, songs without a
\* seed, a seed with a song.
SecondSheets ==
    { <<>>,
      <<[name |-> "R2", df |-> [r \in 0..0 |-> [c \in 0..1 |->
            IF c = 1 THEN <<"b">> ELSE None]]]>>,
      <<[name |-> "R2", df |-> [r \in 0..2 |-> [c \in 0..1 |->
            IF c = 1 /\ r = 2 THEN <<"b">> ELSE None]]]>>,
      <<[name |-> "R2", df |-> [r \in 0..2 |-> [c \in 0..1 |->
            IF c = 1 /\ r # 1 THEN <<"b">> ELSE None]]]>> }

InitValidation ==
    /\ CoreIdle
    /\ req = <<>> /\ copies = <<>> /\ push = <<>> /\ retry = <<>>
    /\ nav = <<>> /\ pager = <<>> /\ likes = <<>>
    /\ \E df \in ValSheets, second \in SecondSheets :
          validation = [sheets |-> <<[name |-> "R1", df |-> df]>> \o second,
                        pc |-> "validate",
                        report |-> validate_excel_data(<<>>),
                        build |-> "not run",
                        index |-> <<>>]

\* python validate_data.py on the workbook
ValidateWorkbook ==
    /\ validation.pc = "validate"
    /\ validation' = [validation EXCEPT
          !.report = validate_excel_data(validation.sheets),
          !.pc = "index"]
    /\ UNCHANGED all_but_validation

\* the app's build_song_index on the same workbook
IndexWorkbook ==
    /\ validation.pc = "index"
    /\ validation' =
          IF IndexErrorIn(validation.sheets)
          THEN [validation EXCEPT !.build = "raised", !.pc = "done"]
          ELSE [validation EXCEPT !.build = "returned", !.pc = "done",
                                  !.index = build_song_index(validation.sheets)]
    /\ UNCHANGED all_but_validation

NextValidation ==
    \/ ValidateWorkbook
    \/ IndexWorkbook

SpecValidation == InitValidation /\ [][NextValidation]_vars

\* The sum of the occurrence counts of the first n index entries.
RECURSIVE SumCounts(_, _)
SumCounts(index, n) ==
    IF n = 0 THEN 0 ELSE SumCounts(index, n - 1) + index[n].count

\* build_song_index has put a cell of the column into the index.
ColumnIndexed(sheet_name, col_idx) ==
    \E i \in 1..Len(validation.index) :
        \E j \in 1..Len(validation.index[i].clusters) :
            /\ validation.index[i].clusters[j].worksheet = sheet_name
            /\ validation.index[i].clusters[j].col_idx = col_idx

\* validate_excel_data has reported the column as skipped.
ColumnReportedSkipped(sheet_name, col_idx) ==
    \E k \in 1..Len(validation.report.issues) :
        /\ validation.report.issues[k].worksheet = sheet_name
        /\ validation.report.issues[k].col_idx = col_idx

\* The non-blank matching songs in the columns without a seed, sheets 1..n.
RECURSIVE LostSongs(_, _)
LostSongs(sheets, n) ==
    IF n = 0 THEN 0
    ELSE LET df == sheets[n].df
             cols == {c \in 1..(NumColumns(df) - 1) : df[0][c] = None}
             cells == {<<r, c>> \in (2..(NumRows(df) - 1)) \X cols :
                          df[r][c] # None /\ Strip(df[r][c]) # <<>>}
         IN  LostSongs(sheets, n - 1) + Cardinality(cells)

\* C30: a column is reported as skipped exactly when the index holds none of
\* its cells; columns_ok + columns_skipped = total_columns; songs_indexed is
\* the sum of the counts of the index entries; songs_skipped is the number of
\* non-blank matching songs in the columns without a seed.
C30_ValidationAgreesWithIndex ==
    validation.pc = "done" =>
        LET report == validation.report
            sheets == validation.sheets IN
        /\ \A i \in 1..Len(sheets) :
              \A col_idx \in 1..(NumColumns(sheets[i].df) - 1) :
                  ColumnReportedSkipped(sheets[i].name, col_idx)
                      <=> ~ColumnIndexed(sheets[i].name, col_idx)
        /\ report.columns_ok + report.columns_skipped = report.total_columns
        /\ report.songs_indexed = SumCounts(validation.index, Len(validation.index))
        /\ report.songs_skipped = LostSongs(sheets, Len(sheets))

====
